---- MODULE Spec2Model ----
(***************************************************************************)
(* Telemetry analytics engine of scripts/telemetry-analyze.py: the         *)
(* bucketizer (bucket_value and the four bucket tables) and the ingestion   *)
(* pipeline of TelemetryAnalyzer.load_events (file loading, per-type        *)
(* normalisation, timestamp parsing, time-window filter, split by tag),     *)
(* followed by main's empty check, the session joiner, the eleven          *)
(* calculators and the report compute_all assembles from them.              *)
(***************************************************************************)
EXTENDS Integers, Sequences, FiniteSets, TLC

VARIABLES
    bcall,        \* the last call of bucket_value: table, argument, outcome
    dir,          \* the data directory: whether it exists, its sorted *.json files
    since,        \* --since, a calendar day or None
    until,        \* --until, a calendar day or None
    pc,           \* position of main: "start", "loaded", "exit0", "reported",
                  \* "raised" (an exception of compute_all ended the run),
                  \* "load_raised" (an exception of load_events ended it),
                  \* "reloaded" (load_events was called a second time)
    raw,          \* load_events' local list all_events (loaded raw events)
    flat_events,  \* load_events' local list flat_events (normalized rows)
    all_events,   \* self.all_events, the unified relation
    rel,          \* the twelve typed relations, by attribute name
    report,       \* the value compute_all returned, or NoReport
    ocall         \* the call of run_obsolete: arguments, collaborators' answers,
                  \* the calls it made and the result it returned

vars ==
    <<bcall, dir, since, until, pc, raw, flat_events, all_events, rel, report,
      ocall>>

----------------------------------------------------------------------------
(* Python / JSON values, tagged by kind.                                   *)

None == [k |-> "null", v |-> 0]
NaN == [k |-> "nan", v |-> 0]
PosInf == [k |-> "inf", v |-> 0]
NegInf == [k |-> "ninf", v |-> 0]
Num(n) == [k |-> "num", v |-> n]
Str(s) == [k |-> "str", v |-> s]
Dict(f) == [k |-> "dict", v |-> f]
List(s) == [k |-> "list", v |-> s]
Bool(b) == [k |-> "bool", v |-> b]

\* an ISO-8601 timestamp string naming tick t of calendar day d, in UTC
Iso(d, t) == [k |-> "iso", v |-> <<d, t>>]
\* a parsed, timezone-aware instant, and pandas' NaT
Instant(n) == [k |-> "instant", v |-> n]
NaT == [k |-> "nat", v |-> 0]

\* the outcome of a call: a returned value or a raised exception
Ret(x) == [k |-> "ret", v |-> x]
Raise(e) == [k |-> "raise", v |-> e]

----------------------------------------------------------------------------
(* Bucketizer.                                                             *)

\* a <= b and a < b on Python floats: num, +inf, -inf
Le(a, b) ==
    CASE a.k = "ninf" -> TRUE
      [] b.k = "inf" -> TRUE
      [] a.k = "inf" -> FALSE
      [] b.k = "ninf" -> FALSE
      [] OTHER -> a.v <= b.v

Lt(a, b) ==
    CASE a.k = "inf" -> FALSE
      [] b.k = "ninf" -> FALSE
      [] a.k = "ninf" -> TRUE
      [] b.k = "inf" -> TRUE
      [] OTHER -> a.v < b.v

\* a RAM table with a mistyped boundary
RAM_BUCKETS_Mistyped ==
    << <<Num(0), Num(512), "<512MB">>,
       <<Num(512), Num(1024), "512MB-1GB">>,
       <<Num(1024), Num(2084), "1-2GB">>,
       <<Num(2084), Num(4096), "2-4GB">>,
       <<Num(4096), Num(8192), "4-8GB">>,
       <<Num(8192), PosInf, "8GB+">> >>

RAM_BUCKETS ==
    << <<Num(0), Num(512), "<512MB">>,
       <<Num(512), Num(1024), "512MB-1GB">>,
       <<Num(1024), Num(2048), "1-2GB">>,
       <<Num(2048), Num(4096), "2-4GB">>,
       <<Num(4096), Num(8192), "4-8GB">>,
       <<Num(8192), PosInf, "8GB+">> >>

NOZZLE_TEMP_BUCKETS ==
    << <<Num(0), Num(180), "<180C">>,
       <<Num(180), Num(200), "180-200C">>,
       <<Num(200), Num(220), "200-220C">>,
       <<Num(220), Num(250), "220-250C">>,
       <<Num(250), Num(280), "250-280C">>,
       <<Num(280), Num(310), "280-310C">>,
       <<Num(310), PosInf, "310C+">> >>

BED_TEMP_BUCKETS ==
    << <<Num(0), Num(40), "<40C">>,
       <<Num(40), Num(60), "40-60C">>,
       <<Num(60), Num(80), "60-80C">>,
       <<Num(80), Num(100), "80-100C">>,
       <<Num(100), Num(120), "100-120C">>,
       <<Num(120), PosInf, "120C+">> >>

UPTIME_BUCKETS ==
    << <<Num(0), Num(60), "<1min">>,
       <<Num(60), Num(300), "1-5min">>,
       <<Num(300), Num(900), "5-15min">>,
       <<Num(900), Num(3600), "15min-1hr">>,
       <<Num(3600), Num(14400), "1-4hr">>,
       <<Num(14400), PosInf, "4hr+">> >>

BucketTables ==
    [ram |-> RAM_BUCKETS, nozzle |-> NOZZLE_TEMP_BUCKETS,
     bed |-> BED_TEMP_BUCKETS, uptime |-> UPTIME_BUCKETS]

BucketNames == DOMAIN BucketTables

\* "low <= value < high" of one triple; comparing a str with a number raises
InRange(value, triple) == Le(triple[1], value) /\ Lt(value, triple[2])

\* a scan that tests the upper bound inclusively
RECURSIVE ScanInclusiveHigh(_, _, _)
ScanInclusiveHigh(value, buckets, i) ==
    IF i > Len(buckets) THEN Ret("unknown")
    ELSE IF value.k = "str" THEN Raise("TypeError")
    ELSE IF Le(buckets[i][1], value) /\ Le(value, buckets[i][2])
         THEN Ret(buckets[i][3])
    ELSE ScanInclusiveHigh(value, buckets, i + 1)

\* the for loop of bucket_value from triple i on
RECURSIVE ScanBuckets(_, _, _)
ScanBuckets(value, buckets, i) ==
    IF i > Len(buckets) THEN Ret("unknown")
    ELSE IF value.k = "str" THEN Raise("TypeError")
    ELSE IF InRange(value, buckets[i]) THEN Ret(buckets[i][3])
    ELSE ScanBuckets(value, buckets, i + 1)

bucket_value(value, buckets) ==
    IF value.k \in {"null", "nan"} THEN Ret("unknown")
    ELSE ScanBuckets(value, buckets, 1)

----------------------------------------------------------------------------
(* Bounds of the model.                                                    *)

\* values within Slack of every bucket boundary are tried
Slack == 1

Boundaries ==
    {BucketTables[b][i][1].v : b \in BucketNames, i \in 1..6}
        \cup {NOZZLE_TEMP_BUCKETS[7][1].v}

BucketArgs ==
    {Num(n + d) : n \in Boundaries, d \in (0 - Slack)..Slack}
        \cup {Num(0 - Slack - 1), None, NaN, PosInf, NegInf, Str("abc")}

NoCall == [table |-> "none", value |-> None, result |-> Ret("unknown")]

----------------------------------------------------------------------------
(* Event normalizer: the flattening loop of load_events.                   *)

\* ev.get(k): the value under k, None when the key is missing
Get(ev, key) == IF key \in DOMAIN ev THEN ev[key] ELSE None

UniversalFields == {"event", "device_id", "timestamp", "schema_version"}

\* the keys copied with flat[k] = ev.get(k), per event tag
TopFields(tag) ==
    CASE tag = "print_outcome" ->
             {"outcome", "duration_sec", "phases_completed",
              "filament_used_mm", "filament_type", "nozzle_temp", "bed_temp"}
      [] tag = "crash" ->
             {"signal", "signal_name", "app_version", "uptime_sec",
              "backtrace"}
      [] tag = "update_failed" ->
             {"reason", "version", "from_version", "platform", "http_code",
              "file_size", "exit_code"}
      [] tag = "update_success" -> {"version", "from_version", "platform"}
      [] tag = "memory_snapshot" ->
             {"trigger", "uptime_sec", "rss_kb", "vm_size_kb", "vm_data_kb",
              "vm_swap_kb", "vm_peak_kb", "vm_hwm_kb"}
      [] tag = "hardware_profile" -> {"display_backend"}
      [] tag = "settings_snapshot" ->
             {"theme", "brightness_pct", "screensaver_timeout_sec",
              "screen_blank_timeout_sec", "locale", "sound_enabled",
              "auto_update_channel", "animations_enabled", "time_format"}
      [] tag = "panel_usage" -> {"session_duration_sec", "overlay_open_count"}
      [] tag = "connection_stability" ->
             {"session_duration_sec", "connect_count", "disconnect_count",
              "total_connected_sec", "total_disconnected_sec",
              "longest_disconnect_sec", "klippy_error_count",
              "klippy_shutdown_count"}
      [] tag = "print_start_context" ->
             {"source", "has_thumbnail", "file_size_bucket",
              "estimated_duration_bucket", "slicer", "tool_count_used",
              "ams_active"}
      [] tag = "error_encountered" ->
             {"category", "code", "context", "uptime_sec"}
      [] OTHER -> {}

\* the nested sections flattened as "section.key", per event tag
Sections(tag) ==
    CASE tag = "session" -> {"app", "host", "printer"}
      [] tag = "hardware_profile" ->
             {"printer", "mcus", "build_volume", "extruders", "fans",
              "steppers", "leds", "sensors", "probe", "capabilities", "ams",
              "tools", "macros", "plugins"}
      [] tag = "panel_usage" -> {"panel_time_sec", "panel_visits"}
      [] OTHER -> {}

\* sub = ev.get(section, {}); the items looped over when sub is a dict
SubItems(ev, section) ==
    IF section \in DOMAIN ev /\ ev[section].k = "dict"
    THEN ev[section].v
    ELSE <<>>

FlatKey(section, key) == section \o "." \o key

\* the tag the if/elif chain dispatches on ("" stands for a tag that is no
\* string: it equals none of the literals)
TagOf(ev) == IF Get(ev, "event").k = "str" THEN Get(ev, "event").v ELSE ""

\* a normalizer that copies every top-level field of the raw event
NormalizeDeepCopy(ev) ==
    [key \in DOMAIN ev \cup UniversalFields |-> Get(ev, key)]

\* one iteration of "for ev in all_events": the dict flat
Normalize(ev) ==
    LET tag == TagOf(ev)
        pairs == UNION {{<<s, key>> : key \in DOMAIN SubItems(ev, s)} :
                          s \in Sections(tag)}
        flatKeys == {FlatKey(p[1], p[2]) : p \in pairs}
        feat == IF tag = "session" THEN {"features"} ELSE {}
        keys == UniversalFields \cup TopFields(tag) \cup flatKeys \cup feat
    IN  [key \in keys |->
            IF key \in flatKeys
            THEN LET p == CHOOSE q \in pairs : FlatKey(q[1], q[2]) = key
                 IN  SubItems(ev, p[1])[p[2]]
            ELSE IF key \in feat
            THEN (IF "features" \in DOMAIN ev THEN ev["features"]
                  ELSE List(<<>>))
            ELSE Get(ev, key)]

----------------------------------------------------------------------------
(* Timestamp parsing and the time window.                                  *)

\* ticks per calendar day: the resolution of the model's clock
TicksPerDay == 2

\* a --since / --until argument naming calendar day d
Date(d) == [k |-> "date", v |-> d]

\* pd.to_datetime(..., errors="coerce", utc=True) of one timestamp cell
ParseTimestamp(v) ==
    IF v.k = "iso" THEN Instant(v.v[1] * TicksPerDay + v.v[2]) ELSE NaT

\* pd.to_datetime(since, utc=True): midnight UTC of the day
DateInstant(date) == Instant(date.v * TicksPerDay)

\* until_dt that forgets the "+ pd.Timedelta(days=1)"
UntilBoundSameDay(date) == DateInstant(date)

\* until_dt = pd.to_datetime(until, utc=True) + pd.Timedelta(days=1)
UntilBound(date) == Instant(DateInstant(date).v + TicksPerDay)

\* elementwise >= and < of the timestamp column; NaT compares False
TsGe(ts, bound) == ts.k = "instant" /\ ts.v >= bound.v
TsLt(ts, bound) == ts.k = "instant" /\ ts.v < bound.v

\* a frame that drops the rows whose timestamp did not parse
ParsedFrameDropNaT(flat) ==
    SelectSeq([i \in 1..Len(flat) |->
                  [flat[i] EXCEPT !["timestamp"] = ParseTimestamp(@)]],
              LAMBDA r : r["timestamp"].k = "instant")

\* df = pd.DataFrame(flat_events) with the timestamp column parsed
ParsedFrame(flat) ==
    [i \in 1..Len(flat) |->
        [flat[i] EXCEPT !["timestamp"] = ParseTimestamp(@)]]

\* "if since:" / "if until:": None and the empty string are falsy
Truthy(arg) == arg.k = "date"

\* a filter that also loses the last row it kept
WindowFilterDropLast(df, s, u) ==
    LET a == IF Truthy(s)
             THEN SelectSeq(df, LAMBDA r : TsGe(r["timestamp"], DateInstant(s)))
             ELSE df
        b == IF Truthy(u)
             THEN SelectSeq(a, LAMBDA r : TsLt(r["timestamp"], UntilBound(u)))
             ELSE a
    IN  IF (Truthy(s) \/ Truthy(u)) /\ Len(b) > 0
        THEN SubSeq(b, 1, Len(b) - 1)
        ELSE b

\* a filter whose masks let unparsed timestamps through
WindowFilterKeepNaT(df, s, u) ==
    LET a == IF Truthy(s)
             THEN SelectSeq(df, LAMBDA r : r["timestamp"].k = "nat"
                                    \/ TsGe(r["timestamp"], DateInstant(s)))
             ELSE df
    IN  IF Truthy(u)
        THEN SelectSeq(a, LAMBDA r : r["timestamp"].k = "nat"
                               \/ TsLt(r["timestamp"], UntilBound(u)))
        ELSE a

\* the two boolean-mask selections of load_events
WindowFilter(df, s, u) ==
    LET a == IF Truthy(s)
             THEN SelectSeq(df, LAMBDA r : TsGe(r["timestamp"], DateInstant(s)))
             ELSE df
    IN  IF Truthy(u)
        THEN SelectSeq(a, LAMBDA r : TsLt(r["timestamp"], UntilBound(u)))
        ELSE a

----------------------------------------------------------------------------
(* Relation splitter.                                                      *)

\* attribute of the analyzer |-> the event tag it selects
RelTag ==
    [sessions |-> "session", prints |-> "print_outcome", crashes |-> "crash",
     update_failures |-> "update_failed",
     update_successes |-> "update_success",
     memory_snapshots |-> "memory_snapshot",
     hardware_profiles |-> "hardware_profile",
     settings_snapshots |-> "settings_snapshot",
     panel_usage |-> "panel_usage",
     connection_stability |-> "connection_stability",
     print_starts |-> "print_start_context", errors |-> "error_encountered"]

RelNames == DOMAIN RelTag

\* df[df["event"] == tag].copy()
SelectTag(df, tag) == SelectSeq(df, LAMBDA r : r["event"] = Str(tag))

\* a splitter whose crash relation also takes the rows of unknown tags
SplitCatchAll(df) ==
    [n \in RelNames |->
        IF n = "crashes"
        THEN SelectSeq(df, LAMBDA r :
                 r["event"] = Str("crash")
                 \/ r["event"] \notin {Str(RelTag[m]) : m \in RelNames})
        ELSE SelectTag(df, RelTag[n])]

\* a splitter that matches the update tags by their common prefix
SplitUpdatePrefix(df) ==
    [n \in RelNames |->
        IF n = "update_failures"
        THEN SelectSeq(df, LAMBDA r :
                 r["event"] \in {Str("update_failed"), Str("update_success")})
        ELSE SelectTag(df, RelTag[n])]

\* a splitter that hands out each relation newest row first
SplitNewestFirst(df) ==
    [n \in RelNames |->
        LET rows == SelectTag(df, RelTag[n])
        IN  [i \in 1..Len(rows) |-> rows[Len(rows) + 1 - i]]]

Split(df) == [n \in RelNames |-> SelectTag(df, RelTag[n])]

\* typed relations split from the frame as it was before the window filter
TypedRelationsUnfiltered(frame, s, u) == Split(frame)

\* the typed relations of load_events: the frame is filtered, then split
TypedRelations(frame, s, u) == Split(WindowFilter(frame, s, u))

----------------------------------------------------------------------------
(* Loader: the files of the data directory.                                *)

\* a *.json file: a JSON list, a JSON object, another JSON value, or a file
\* json.load / open fails on
ListFile(recs) == [kind |-> "list", data |-> recs]
DictFile(rec) == [kind |-> "dict", data |-> <<rec>>]
ScalarFile == [kind |-> "scalar", data |-> <<>>]
BadFile == [kind |-> "bad", data |-> <<>>]
\* a file whose bytes are no text in the default encoding: json.load reads it
\* through the text-mode handle and the read raises UnicodeDecodeError
UndecodableFile == [kind |-> "undecodable", data |-> <<>>]

MissingDir == [exists |-> FALSE, files |-> <<>>]
DataDir(files) == [exists |-> TRUE, files |-> files]

\* the "for fpath in json_files" loop from file i on: extend for a list,
\* append for an object, nothing for any other value, a warning on failure
RECURSIVE LoadFiles(_, _)
LoadFiles(files, i) ==
    IF i > Len(files) THEN <<>>
    ELSE (IF files[i].kind \in {"list", "dict"} THEN files[i].data ELSE <<>>)
             \o LoadFiles(files, i + 1)

\* a loader whose except clause takes every exception
LoaderNeverRaises(files) == FALSE

\* except (json.JSONDecodeError, OSError): UnicodeDecodeError is neither, so
\* it leaves the loop and load_events
LoaderRaises(files) == \E i \in 1..Len(files) : files[i].kind = "undecodable"

----------------------------------------------------------------------------
(* Frames: columns, cells, and the session joiner.                         *)

\* the columns of pd.DataFrame(flat_events): every key of every flat dict;
\* the filter and the split keep the columns, so every typed relation has them
Columns(flat) == UNION {DOMAIN flat[i] : i \in 1..Len(flat)}

\* one cell of a frame: NaN where the row's dict had no such key
Cell(row, col) == IF col \in DOMAIN row THEN row[col] ELSE NaN

\* pd.isna of a cell
IsNull(v) == v.k \in {"null", "nan", "nat"}

\* df[col] as a sequence, in row order
Column(df, col) == [i \in 1..Len(df) |-> Cell(df[i], col)]

\* GroupBy.first() of one group: its first non-null value, NaN when the group
\* has none
GroupFirst(vals) ==
    LET idx == {i \in 1..Len(vals) : ~IsNull(vals[i])}
    IN  IF idx = {} THEN NaN
        ELSE vals[CHOOSE i \in idx : \A j \in idx : i <= j]

\* the group keys of df.groupby(col): the non-null values of the column
GroupKeys(df, col) == {Cell(df[i], col) : i \in 1..Len(df)} \ {None, NaN, NaT}

\* sessions.groupby("device_id")[field].first()
DeviceMap(sessions, field) ==
    [d \in GroupKeys(sessions, "device_id") |->
        GroupFirst(Column(SelectSeq(sessions,
                       LAMBDA r : Cell(r, "device_id") = d), field))]

\* Series.map(device_map) of one cell: NaN for a key the map does not hold
MapCell(device_map, key) ==
    IF key \in DOMAIN device_map THEN device_map[key] ELSE NaN

\* result[col] = v on one row
SetCell(row, col, v) ==
    [c \in DOMAIN row \cup {col} |-> IF c = col THEN v ELSE row[c]]

\* _join_session_field(df, field), with self.sessions and its columns
_join_session_field(sessions, cols, df, field) ==
    IF field \notin cols THEN df
    ELSE LET device_map == DeviceMap(sessions, field)
         IN  [i \in 1..Len(df) |->
                 SetCell(df[i], field,
                         MapCell(device_map, Cell(df[i], "device_id")))]

----------------------------------------------------------------------------
(* Series helpers: counting, numeric coercion, rounding.                   *)

\* a float rounded to one / to four decimals, held as tenths / as
\* ten-thousandths
Dec1(tenths) == [k |-> "dec1", v |-> tenths]
Dec4(tenthousandths) == [k |-> "dec4", v |-> tenthousandths]

\* the entries of a sequence
Range(seq) == {seq[i] : i \in 1..Len(seq)}

\* Series.dropna()
DropNa(vals) == SelectSeq(vals, LAMBDA v : ~IsNull(v))

\* Series.value_counts().to_dict(): the rows per non-null value
ValueCounts(vals) ==
    [x \in Range(DropNa(vals)) |->
        Cardinality({i \in 1..Len(vals) : vals[i] = x})]

\* counts.head(top): the top most frequent values
HeadTop(counts, top) ==
    IF Cardinality(DOMAIN counts) <= top THEN counts
    ELSE LET kept == CHOOSE S \in SUBSET DOMAIN counts :
                         /\ Cardinality(S) = top
                         /\ \A x \in S : \A y \in DOMAIN counts \ S :
                                counts[x] >= counts[y]
         IN  [x \in kept |-> counts[x]]

\* value_counts that keeps the null values as a key of their own
_distribution_keep_null(df, cols, column) ==
    IF column \notin cols THEN Dict(<<>>)
    ELSE LET vals == Column(df, column)
         IN  Dict([x \in Range(vals) |->
                      Cardinality({i \in 1..Len(vals) : vals[i] = x})])

\* _distribution(df, column) with top=None
_distribution(df, cols, column) ==
    IF column \notin cols THEN Dict(<<>>)
    ELSE Dict(ValueCounts(Column(df, column)))

\* _distribution(df, column, top=top)
_distribution_top(df, cols, column, top) ==
    IF column \notin cols THEN Dict(<<>>)
    ELSE Dict(HeadTop(ValueCounts(Column(df, column)), top))

\* pd.to_numeric(..., errors="coerce") of one cell: numbers stay, a string
\* that is no numeral, None and NaN become NaN
ToNumericCell(v) == IF v.k \in {"num", "inf", "ninf"} THEN v ELSE NaN

ToNumeric(vals) == [i \in 1..Len(vals) |-> ToNumericCell(vals[i])]

\* round(num / den) to the nearest integer, ties to even (num >= 0, den > 0)
RoundDiv(num, den) ==
    LET q == num \div den
        r == num % den
    IN  IF 2 * r < den THEN q
        ELSE IF 2 * r > den THEN q + 1
        ELSE IF q % 2 = 0 THEN q ELSE q + 1

\* round(part / whole * 100, 1)
Pct(part, whole) == Dec1(RoundDiv(part * 1000, whole))

\* round(count / base, 4)
Rate4(count, base) == Dec4(RoundDiv(count * 10000, base))

RECURSIVE SumNums(_, _)
SumNums(vals, i) ==
    IF i > Len(vals) THEN 0 ELSE vals[i].v + SumNums(vals, i + 1)

\* round(series.mean(), 1) of a non-empty series of finite numbers
Mean1(vals) == Dec1(RoundDiv(SumNums(vals, 1) * 10, Len(vals)))

\* the k-th smallest entry of a series of finite numbers
Kth(vals, k) ==
    CHOOSE x \in {v.v : v \in Range(vals)} :
        /\ Cardinality({i \in 1..Len(vals) : vals[i].v < x}) < k
        /\ Cardinality({i \in 1..Len(vals) : vals[i].v <= x}) >= k

\* round(series.median(), 1) of a non-empty series of finite numbers
Median1(vals) ==
    LET n == Len(vals)
    IN  IF n % 2 = 1 THEN Dec1(10 * Kth(vals, (n + 1) \div 2))
        ELSE Dec1(5 * (Kth(vals, n \div 2) + Kth(vals, n \div 2 + 1)))

\* series.apply(lambda v: bucket_value(v, buckets)) of numeric cells
Bucketed(vals, buckets) ==
    [i \in 1..Len(vals) |-> Str(bucket_value(vals[i], buckets).v)]

\* Series.nunique(): the distinct non-null values
NUnique(vals) == Cardinality(Range(DropNa(vals)))

----------------------------------------------------------------------------
(* The event counts of compute_all.                                        *)

NoReport == [event_counts |-> <<>>]

\* a count of rows that takes its total from the typed relations
event_counts_sum_typed(rels, df) ==
    [n \in RelNames \cup {"total"} |->
        IF n = "total"
        THEN Len(rels["sessions"]) + Len(rels["prints"]) + Len(rels["crashes"])
        ELSE Len(rels[n])]

\* the "event_counts" mapping of compute_all
event_counts(rels, df) ==
    [n \in RelNames \cup {"total"} |->
        IF n = "total" THEN Len(df) ELSE Len(rels[n])]

----------------------------------------------------------------------------
(* Calculators. Each takes the typed relations and the frame's columns and *)
(* returns its result mapping; a nested mapping is a Dict, a number a Num,  *)
(* a rounded float a Dec1 or Dec4. Numeric columns hold finite numbers,     *)
(* strings that are no numerals, or nulls.                                  *)

\* one optional key of a result: result[key] = value under an "if"
Entry(cond, key, value) == IF cond THEN [x \in {key} |-> value] ELSE <<>>

Note(msg) == [note |-> Str(msg)]

\* c_with_platform["platform"].fillna("unknown")
FillNa(vals, fill) ==
    [i \in 1..Len(vals) |-> IF IsNull(vals[i]) THEN fill ELSE vals[i]]

\* crash_rate that divides without looking at the session count
crash_rate_unguarded(total_crashes, total_sessions) ==
    IF total_sessions > 0 THEN Rate4(total_crashes, total_sessions) ELSE NaN

\* crash_rate that is 0 when there is no session
crash_rate_or_zero(total_crashes, total_sessions) ==
    IF total_sessions > 0 THEN Rate4(total_crashes, total_sessions) ELSE Num(0)

\* result["crash_rate"]
crash_rate(total_crashes, total_sessions) ==
    IF total_sessions > 0 THEN Rate4(total_crashes, total_sessions) ELSE None

\* platforms counted without the "unknown" fill
crashes_by_platform_no_fill(c, s) ==
    LET device_platform == DeviceMap(s, "app.platform")
        platform == [i \in 1..Len(c) |->
                        MapCell(device_platform, Cell(c[i], "device_id"))]
    IN  Dict(ValueCounts(platform))

\* result["crashes_by_platform"]
crashes_by_platform(c, s) ==
    LET device_platform == DeviceMap(s, "app.platform")
        platform == [i \in 1..Len(c) |->
                        MapCell(device_platform, Cell(c[i], "device_id"))]
    IN  Dict(ValueCounts(FillNa(platform, Str("unknown"))))

\* result["crash_rate_per_version"]
crash_rate_per_version(c, s) ==
    LET sessions_by_ver == ValueCounts(Column(s, "app.version"))
        crashes_by_ver == ValueCounts(Column(c, "app_version"))
    IN  Dict([ver \in DOMAIN crashes_by_ver |->
                 IF ver \in DOMAIN sessions_by_ver
                 THEN Rate4(crashes_by_ver[ver], sessions_by_ver[ver])
                 ELSE None])

compute_crash_metrics(rels, cols) ==
    LET c == rels["crashes"]
        s == rels["sessions"]
        uptime == DropNa(ToNumeric(Column(c, "uptime_sec")))
        has_uptime == "uptime_sec" \in cols /\ Len(uptime) > 0
    IN  IF Len(c) = 0 THEN Note("No crash data")
        ELSE [total_crashes |-> Num(Len(c)),
              total_sessions |-> Num(Len(s)),
              crash_rate |-> crash_rate(Len(c), Len(s))]
             @@ Entry("signal_name" \in cols, "crashes_by_signal",
                      Dict(ValueCounts(Column(c, "signal_name"))))
             @@ Entry(Len(s) > 0 /\ "app.platform" \in cols,
                      "crashes_by_platform", crashes_by_platform(c, s))
             @@ Entry("app_version" \in cols, "crashes_by_version",
                      Dict(ValueCounts(Column(c, "app_version"))))
             @@ Entry("app_version" \in cols /\ Len(s) > 0
                          /\ "app.version" \in cols,
                      "crash_rate_per_version", crash_rate_per_version(c, s))
             @@ Entry(has_uptime, "mean_uptime_before_crash_sec",
                      Mean1(uptime))
             @@ Entry(has_uptime, "median_uptime_before_crash_sec",
                      Median1(uptime))
             @@ Entry(has_uptime, "uptime_distribution_before_crash",
                      Dict(ValueCounts(Bucketed(uptime, UPTIME_BUCKETS))))

\* an insertion-ordered mapping: its (key, value) items in order
Items(pairs) == [k |-> "items", v |-> pairs]

\* the calendar week of a parsed timestamp: ts.dt.to_period("W")
WeekOf(ts) == [k |-> "week", v |-> ts.v \div (7 * TicksPerDay)]

\* the rows of a group: df[df[column] == name]
Group(df, column, name) == SelectSeq(df, LAMBDA r : Cell(r, column) = name)

\* (group["outcome"] == "success").sum()
Successes(group) ==
    Cardinality({i \in 1..Len(group) :
                    Cell(group[i], "outcome") = Str("success")})

\* sorted(result.items(), key=lambda x: -x[1]["rate"]); equal rates keep the
\* order of the group keys, which the model leaves to CHOOSE
SortedByRate(result) ==
    LET names == DOMAIN result
        order == CHOOSE seq \in [1..Cardinality(names) -> names] :
                     /\ \A i, j \in DOMAIN seq : i # j => seq[i] # seq[j]
                     /\ \A i, j \in DOMAIN seq :
                            i < j => result[seq[i]].rate.v >= result[seq[j]].rate.v
    IN  [i \in DOMAIN order |-> <<order[i], result[order[i]]>>]

\* the items sorted by ascending rate
SortedByRateAscending(result) ==
    LET names == DOMAIN result
        order == CHOOSE seq \in [1..Cardinality(names) -> names] :
                     /\ \A i, j \in DOMAIN seq : i # j => seq[i] # seq[j]
                     /\ \A i, j \in DOMAIN seq :
                            i < j => result[seq[i]].rate.v <= result[seq[j]].rate.v
    IN  [i \in DOMAIN order |-> <<order[i], result[order[i]]>>]

\* the "result" dict of _success_rate_by before it is sorted
RateEntries(df, column, names) ==
    [name \in names |->
        LET group == Group(df, column, name)
        IN  [rate |-> Pct(Successes(group), Len(group)), total |-> Len(group)]]

\* _success_rate_by that keeps every group, whatever min_count says
_success_rate_by_no_minimum(df, cols, column, min_count) ==
    IF column \notin cols \/ "outcome" \notin cols THEN Items(<<>>)
    ELSE Items(SortedByRate(RateEntries(df, column, GroupKeys(df, column))))

\* _success_rate_by(df, column, min_count)
_success_rate_by(df, cols, column, min_count) ==
    IF column \notin cols \/ "outcome" \notin cols THEN Items(<<>>)
    ELSE LET kept == {name \in GroupKeys(df, column) :
                         Len(Group(df, column, name)) >= min_count}
         IN  Items(SortedByRate(RateEntries(df, column, kept)))

\* outcome rates that divide by the rows with a non-null outcome
outcome_rates_of_counted(p) ==
    LET outcome_counts == ValueCounts(Column(p, "outcome"))
        counted == Len(DropNa(Column(p, "outcome")))
    IN  Dict([x \in DOMAIN outcome_counts |-> Pct(outcome_counts[x], counted)])

\* result["outcome_rates"]
outcome_rates(p) ==
    LET outcome_counts == ValueCounts(Column(p, "outcome"))
    IN  Dict([x \in DOMAIN outcome_counts |-> Pct(outcome_counts[x], Len(p))])

\* result["success_rate_weekly"]
success_rate_weekly(p) ==
    LET ts == SelectSeq(p, LAMBDA r : ~IsNull(Cell(r, "timestamp")))
        weeks == {WeekOf(Cell(ts[i], "timestamp")) : i \in 1..Len(ts)}
    IN  Dict([w \in weeks |->
                 LET group == SelectSeq(ts, LAMBDA r :
                                  WeekOf(Cell(r, "timestamp")) = w)
                 IN  Pct(Successes(group), Len(group))])

\* durations.groupby("outcome")["duration_sec"].mean().round(1): the mean of
\* a group with no numeric duration is NaN
avg_duration_by_outcome_sec(p) ==
    Dict([o \in GroupKeys(p, "outcome") |->
             LET durations == DropNa(ToNumeric(Column(Group(p, "outcome", o),
                                                     "duration_sec")))
             IN  IF Len(durations) = 0 THEN NaN ELSE Mean1(durations)])

\* nt = pd.to_numeric(...); nt = nt[nt > 0]
PositiveNumeric(vals) ==
    SelectSeq(ToNumeric(vals), LAMBDA v : Lt(Num(0), v) /\ ~IsNull(v))

compute_print_metrics(rels, cols) ==
    LET p == rels["prints"]
        s == rels["sessions"]
        has_outcome == "outcome" \in cols
        phases == DropNa(ToNumeric(Column(p, "phases_completed")))
        ft == SelectSeq(DropNa(Column(p, "filament_type")),
                        LAMBDA v : v # Str(""))
        nt == PositiveNumeric(Column(p, "nozzle_temp"))
        bt == PositiveNumeric(Column(p, "bed_temp"))
    IN  IF Len(p) = 0 THEN Note("No print data")
        ELSE Entry(has_outcome, "total_prints", Num(Len(p)))
             @@ Entry(has_outcome, "outcome_counts",
                      Dict(ValueCounts(Column(p, "outcome"))))
             @@ Entry(has_outcome, "outcome_rates", outcome_rates(p))
             @@ Entry(has_outcome /\ "timestamp" \in cols
                          /\ \E i \in 1..Len(p) :
                                 ~IsNull(Cell(p[i], "timestamp")),
                      "success_rate_weekly", success_rate_weekly(p))
             @@ Entry(has_outcome /\ Len(s) > 0, "success_rate_by_model",
                      _success_rate_by(
                          _join_session_field(s, cols, p,
                                              "printer.detected_model"),
                          cols, "printer.detected_model", 5))
             @@ Entry(has_outcome /\ Len(s) > 0, "success_rate_by_kinematics",
                      _success_rate_by(
                          _join_session_field(s, cols, p, "printer.kinematics"),
                          cols, "printer.kinematics", 1))
             @@ Entry("phases_completed" \in cols /\ Len(phases) > 0,
                      "phase_completion_distribution",
                      Dict(ValueCounts(phases)))
             @@ Entry("duration_sec" \in cols /\ has_outcome,
                      "avg_duration_by_outcome_sec",
                      avg_duration_by_outcome_sec(p))
             @@ Entry("filament_type" \in cols /\ Len(ft) > 0,
                      "filament_type_distribution", Dict(ValueCounts(ft)))
             @@ Entry("nozzle_temp" \in cols /\ Len(nt) > 0,
                      "nozzle_temp_distribution",
                      Dict(ValueCounts(Bucketed(nt, NOZZLE_TEMP_BUCKETS))))
             @@ Entry("bed_temp" \in cols /\ Len(bt) > 0,
                      "bed_temp_distribution",
                      Dict(ValueCounts(Bucketed(bt, BED_TEMP_BUCKETS))))

\* an update calculator that looks at the failures only
compute_update_metrics_failures_only(rels, cols) ==
    LET uf == rels["update_failures"]
        n_fail == Len(uf)
        n_success == Len(rels["update_successes"])
        n_total == n_fail + n_success
    IN  IF n_fail = 0 THEN Note("No update data")
        ELSE [total_attempts |-> Num(n_total),
              successes |-> Num(n_success),
              failures |-> Num(n_fail),
              success_rate |-> Pct(n_success, n_total)]

compute_update_metrics(rels, cols) ==
    LET uf == rels["update_failures"]
        n_fail == Len(uf)
        n_success == Len(rels["update_successes"])
        n_total == n_fail + n_success
    IN  IF n_total = 0 THEN Note("No update data")
        ELSE [total_attempts |-> Num(n_total),
              successes |-> Num(n_success),
              failures |-> Num(n_fail),
              success_rate |-> Pct(n_success, n_total)]
             @@ Entry(n_fail > 0 /\ "reason" \in cols, "failure_reasons",
                      Dict(ValueCounts(Column(uf, "reason"))))
             @@ Entry(n_fail > 0 /\ "platform" \in cols,
                      "failures_by_platform",
                      Dict(ValueCounts(Column(uf, "platform"))))

\* round(vals.max(), 1)
Max1(vals) == Dec1(10 * Kth(vals, Len(vals)))

\* round(vals.quantile(0.95), 1): linear interpolation between the two
\* order statistics around position 0.95 * (n - 1)
Quantile95(vals) ==
    LET n == Len(vals)
        lo == (95 * (n - 1)) \div 100
        frac == (95 * (n - 1)) % 100
        a == Kth(vals, lo + 1)
        b == IF lo + 2 <= n THEN Kth(vals, lo + 2) ELSE a
    IN  Dec1(10 * a + RoundDiv(frac * (b - a) * 10, 100))

MemoryColumns == {"rss_kb", "vm_size_kb", "vm_peak_kb", "vm_hwm_kb"}

\* the statistics of the memory columns that hold at least one number
MemoryStats(m, cols) ==
    LET vals(col) == DropNa(ToNumeric(Column(m, col)))
        present == {col \in MemoryColumns \cap cols : Len(vals(col)) > 0}
        stats == {"_mean", "_max", "_p95"}
        pairs == present \X stats
    IN  [key \in {p[1] \o p[2] : p \in pairs} |->
            LET p == CHOOSE q \in pairs : q[1] \o q[2] = key
            IN  CASE p[2] = "_mean" -> Mean1(vals(p[1]))
                  [] p[2] = "_max" -> Max1(vals(p[1]))
                  [] OTHER -> Quantile95(vals(p[1]))]

compute_memory_metrics(rels, cols) ==
    LET m == rels["memory_snapshots"]
    IN  IF Len(m) = 0 THEN Note("No memory snapshot data")
        ELSE [total_snapshots |-> Num(Len(m))] @@ MemoryStats(m, cols)

Capabilities ==
    {"capabilities.has_chamber", "capabilities.has_accelerometer",
     "capabilities.has_firmware_retraction",
     "capabilities.has_exclude_object", "capabilities.has_timelapse",
     "capabilities.has_klippain_shaketune", "probe.has_probe",
     "probe.has_bed_mesh", "probe.has_qgl"}

\* vals == True, elementwise: Python's True equals 1
IsTrue(v) == v = Bool(TRUE) \/ v = Num(1)

TrueCount(vals) == Cardinality({i \in 1..Len(vals) : IsTrue(vals[i])})

\* a share that is null when the column holds no value
share_pct_or_null(vals) ==
    IF Len(vals) > 0 THEN Pct(TrueCount(vals), Len(vals)) ELSE None

\* round(true_count / len(vals) * 100, 1) if len(vals) > 0 else 0
share_pct(vals) ==
    IF Len(vals) > 0 THEN Pct(TrueCount(vals), Len(vals)) ELSE Num(0)

\* result[f"{cap}_pct"] for every capability column of the frame
CapabilityPcts(h, cols) ==
    LET present == Capabilities \cap cols
    IN  [key \in {cap \o "_pct" : cap \in present} |->
            LET cap == CHOOSE c \in present : c \o "_pct" = key
            IN  share_pct(DropNa(Column(h, cap)))]

compute_hardware_metrics(rels, cols) ==
    LET h == rels["hardware_profiles"]
    IN  IF Len(h) = 0 THEN Note("No hardware profile data")
        ELSE [total_profiles |-> Num(Len(h)),
              printer_model_distribution |->
                  _distribution_top(h, cols, "printer.detected_model", 20),
              kinematics_distribution |->
                  _distribution(h, cols, "printer.kinematics"),
              primary_mcu_distribution |->
                  _distribution_top(h, cols, "mcus.primary", 10),
              extruder_count_distribution |->
                  _distribution(h, cols, "extruders.count"),
              ams_type_distribution |-> _distribution(h, cols, "ams.type"),
              display_backend_distribution |->
                  _distribution(h, cols, "display_backend")]
             @@ CapabilityPcts(h, cols)

compute_settings_metrics(rels, cols) ==
    LET s == rels["settings_snapshots"]
        vals == DropNa(ToNumeric(Column(s, "brightness_pct")))
    IN  IF Len(s) = 0 THEN Note("No settings snapshot data")
        ELSE [total_snapshots |-> Num(Len(s)),
              theme_distribution |-> _distribution(s, cols, "theme"),
              locale_distribution |-> _distribution(s, cols, "locale"),
              time_format_distribution |->
                  _distribution(s, cols, "time_format")]
             @@ Entry("brightness_pct" \in cols /\ Len(vals) > 0,
                      "brightness_mean", Mean1(vals))

\* the keys of a mapping of integers, by descending value; equal values
\* keep their insertion order, which the model leaves to CHOOSE
OrderDesc(weight) ==
    CHOOSE seq \in [1..Cardinality(DOMAIN weight) -> DOMAIN weight] :
        /\ \A i, j \in DOMAIN seq : i # j => seq[i] # seq[j]
        /\ \A i, j \in DOMAIN seq : i < j => weight[seq[i]] >= weight[seq[j]]

\* c.startswith(prefix)
StartsWith(c, prefix) ==
    Len(c) >= Len(prefix) /\ SubSeq(c, 1, Len(prefix)) = prefix

\* int(pd.to_numeric(p[col], errors="coerce").fillna(0).sum())
SumFilled(vals) == SumNums(FillNa(ToNumeric(vals), Num(0)), 1)

\* panel_totals / panel_visits, sorted by descending total
PanelTotals(p, cols, prefix) ==
    LET panel_cols == {c \in cols : StartsWith(c, prefix)}
        totals == [c \in panel_cols |-> SumFilled(Column(p, c))]
        order == OrderDesc(totals)
    IN  Items([i \in DOMAIN order |->
                  <<SubSeq(order[i], Len(prefix) + 1, Len(order[i])),
                    Num(totals[order[i]])>>])

compute_panel_usage_metrics(rels, cols) ==
    LET p == rels["panel_usage"]
        dur == DropNa(ToNumeric(Column(p, "session_duration_sec")))
        has_dur == "session_duration_sec" \in cols /\ Len(dur) > 0
    IN  IF Len(p) = 0 THEN Note("No panel usage data")
        ELSE [total_sessions |-> Num(Len(p))]
             @@ Entry(\E c \in cols : StartsWith(c, "panel_time_sec."),
                      "total_time_by_panel_sec",
                      PanelTotals(p, cols, "panel_time_sec."))
             @@ Entry(\E c \in cols : StartsWith(c, "panel_visits."),
                      "total_visits_by_panel",
                      PanelTotals(p, cols, "panel_visits."))
             @@ Entry(has_dur, "avg_session_duration_sec", Mean1(dur))
             @@ Entry(has_dur, "median_session_duration_sec", Median1(dur))

\* a float rounded to two decimals, held as hundredths
Dec2(hundredths) == [k |-> "dec2", v |-> hundredths]

ConnectionCounters ==
    {"connect_count", "disconnect_count", "klippy_error_count",
     "klippy_shutdown_count"}

\* result[f"{col}_total"] and result[f"{col}_mean"] of the counter columns
\* that hold at least one number
ConnectionStats(c, cols) ==
    LET vals(col) == DropNa(ToNumeric(Column(c, col)))
        present == {col \in ConnectionCounters \cap cols : Len(vals(col)) > 0}
        pairs == present \X {"_total", "_mean"}
    IN  [key \in {p[1] \o p[2] : p \in pairs} |->
            LET p == CHOOSE q \in pairs : q[1] \o q[2] = key
            IN  IF p[2] = "_total" THEN Num(SumNums(vals(p[1]), 1))
                ELSE Dec2(RoundDiv(SumNums(vals(p[1]), 1) * 100,
                                   Len(vals(p[1]))))]

\* a connected share computed whatever the total duration is
overall_connected_pct_unguarded(c) ==
    LET total_dur == SumFilled(Column(c, "session_duration_sec"))
    IN  IF total_dur > 0
        THEN Pct(SumFilled(Column(c, "total_connected_sec")), total_dur)
        ELSE NaN

\* round(connected.sum() / total_dur * 100, 1)
overall_connected_pct(c) ==
    Pct(SumFilled(Column(c, "total_connected_sec")),
        SumFilled(Column(c, "session_duration_sec")))

compute_connection_metrics(rels, cols) ==
    LET c == rels["connection_stability"]
        vals == DropNa(ToNumeric(Column(c, "longest_disconnect_sec")))
        has_longest == "longest_disconnect_sec" \in cols /\ Len(vals) > 0
    IN  IF Len(c) = 0 THEN Note("No connection stability data")
        ELSE [total_sessions |-> Num(Len(c))]
             @@ ConnectionStats(c, cols)
             @@ Entry("total_connected_sec" \in cols
                          /\ "session_duration_sec" \in cols
                          /\ SumFilled(Column(c, "session_duration_sec")) > 0,
                      "overall_connected_pct", overall_connected_pct(c))
             @@ Entry(has_longest, "longest_disconnect_max_sec", Max1(vals))
             @@ Entry(has_longest, "longest_disconnect_mean_sec", Mean1(vals))

compute_print_start_metrics(rels, cols) ==
    LET p == rels["print_starts"]
    IN  IF Len(p) = 0 THEN Note("No print start data")
        ELSE [total_print_starts |-> Num(Len(p)),
              source_distribution |-> _distribution(p, cols, "source"),
              slicer_distribution |->
                  _distribution_top(p, cols, "slicer", 10),
              file_size_distribution |->
                  _distribution(p, cols, "file_size_bucket"),
              duration_estimate_distribution |->
                  _distribution(p, cols, "estimated_duration_bucket")]
             @@ Entry("has_thumbnail" \in cols, "thumbnail_pct",
                      share_pct(DropNa(Column(p, "has_thumbnail"))))
             @@ Entry("ams_active" \in cols, "ams_active_pct",
                      share_pct(DropNa(Column(p, "ams_active"))))

compute_error_metrics(rels, cols) ==
    LET e == rels["errors"]
    IN  IF Len(e) = 0 THEN Note("No error data")
        ELSE [total_errors |-> Num(Len(e)),
              errors_by_category |-> _distribution(e, cols, "category"),
              errors_by_code |-> _distribution_top(e, cols, "code", 10),
              errors_by_context |-> _distribution_top(e, cols, "context", 10)]

\* the calendar day of a parsed timestamp: ts.dt.date
DateOf(ts) == [k |-> "day", v |-> ts.v \div TicksPerDay]

\* ts.groupby(periods)["device_id"].nunique().to_dict(), periods[i] being the
\* period of row i
ActiveDevices(ts, periods) ==
    Dict([d \in Range(periods) |->
             Cardinality({Cell(ts[i], "device_id") : 
                             i \in {j \in 1..Len(ts) : periods[j] = d}}
                         \ {None, NaN, NaT})])

\* first_seen = ts.groupby("device_id")["timestamp"].min().dt.date, then
\* first_seen.value_counts(): the devices first seen on each day
new_devices_per_day(ts) ==
    LET devices == GroupKeys(ts, "device_id")
        first_seen ==
            [d \in devices |->
                LET own == Group(ts, "device_id", d)
                IN  DateOf(Instant(Kth(Column(own, "timestamp"), 1)))]
    IN  Dict([day \in {first_seen[d] : d \in devices} |->
                 Cardinality({d \in devices : first_seen[d] = day})])

\* the values of the features column that are lists
FeatureLists(s) == SelectSeq(Column(s, "features"), LAMBDA v : v.k = "list")

\* feature_counts: the occurrences of each feature over all feature lists
FeatureCounts(lists) ==
    LET places == UNION {{<<i, j>> : j \in 1..Len(lists[i].v)} :
                            i \in 1..Len(lists)}
    IN  [f \in {lists[p[1]].v[p[2]] : p \in places} |->
            Cardinality({p \in places : lists[p[1]].v[p[2]] = f})]

\* feature rates over all sessions, with or without a feature list
feature_adoption_rates_of_sessions(s) ==
    LET counts == FeatureCounts(FeatureLists(s))
        order == OrderDesc(counts)
    IN  Items([i \in DOMAIN order |->
                  <<order[i], Pct(counts[order[i]], Len(s))>>])

\* result["feature_adoption_rates"]
feature_adoption_rates(s) ==
    LET lists == FeatureLists(s)
        counts == FeatureCounts(lists)
        order == OrderDesc(counts)
    IN  IF Len(lists) > 0
        THEN Items([i \in DOMAIN order |->
                       <<order[i], Pct(counts[order[i]], Len(lists))>>])
        ELSE Items(<<>>)

\* a RAM distribution over the numeric cells only
ram_distribution_of_numbers(s) ==
    Dict(ValueCounts(Bucketed(DropNa(ToNumeric(Column(s, "host.ram_total_mb"))),
                              RAM_BUCKETS)))

\* result["ram_distribution"]: NaN cells are bucketed as "unknown"
ram_distribution(s) ==
    Dict(ValueCounts(Bucketed(ToNumeric(Column(s, "host.ram_total_mb")),
                              RAM_BUCKETS)))

\* the calculator without active_devices_monthly: the model's clock counts
\* days and weeks and has no calendar months
compute_adoption_metrics(rels, cols) ==
    LET s == rels["sessions"]
        ts == SelectSeq(s, LAMBDA r : ~IsNull(Cell(r, "timestamp")))
        has_ts == "timestamp" \in cols /\ Len(ts) > 0
        stamps == Column(ts, "timestamp")
    IN  IF Len(s) = 0 THEN Note("No session data")
        ELSE [total_unique_devices |-> Num(NUnique(Column(s, "device_id"))),
              platform_distribution |-> _distribution(s, cols, "app.platform"),
              app_version_distribution |->
                  _distribution(s, cols, "app.version"),
              printer_model_top20 |->
                  _distribution_top(s, cols, "printer.detected_model", 20),
              kinematics_distribution |->
                  _distribution(s, cols, "printer.kinematics"),
              display_resolution_distribution |->
                  _distribution(s, cols, "app.display"),
              locale_distribution |-> _distribution(s, cols, "app.locale"),
              theme_distribution |-> _distribution(s, cols, "app.theme"),
              klipper_version_distribution |->
                  _distribution(s, cols, "printer.klipper_version"),
              host_arch_distribution |-> _distribution(s, cols, "host.arch")]
             @@ Entry(has_ts, "active_devices_daily",
                      ActiveDevices(ts, [i \in 1..Len(ts) |->
                                            DateOf(stamps[i])]))
             @@ Entry(has_ts, "active_devices_weekly",
                      ActiveDevices(ts, [i \in 1..Len(ts) |->
                                            WeekOf(stamps[i])]))
             @@ Entry(has_ts, "new_devices_per_day", new_devices_per_day(ts))
             @@ Entry("host.ram_total_mb" \in cols, "ram_distribution",
                      ram_distribution(s))
             @@ Entry("features" \in cols, "feature_adoption_rates",
                      feature_adoption_rates(s))

----------------------------------------------------------------------------
(* Report assembler: the mapping compute_all returns.                      *)

\* the key of each domain of the report and the relation it is computed from
DomainRelation ==
    [adoption |-> "sessions",
     print_reliability |-> "prints",
     crash_analysis |-> "crashes",
     update_analysis |-> "update_failures",
     memory_analysis |-> "memory_snapshots",
     hardware_analysis |-> "hardware_profiles",
     settings_analysis |-> "settings_snapshots",
     panel_usage_analysis |-> "panel_usage",
     connection_analysis |-> "connection_stability",
     print_start_analysis |-> "print_starts",
     error_analysis |-> "errors"]

DomainKeys == DOMAIN DomainRelation

\* a report that leaves out the domains whose relation is empty
compute_all_result_skip_empty(now, rels, df, cols) ==
    [generated_at |-> now, event_counts |-> event_counts(rels, df)]
    @@ Entry(Len(rels["sessions"]) > 0, "adoption",
             compute_adoption_metrics(rels, cols))
    @@ Entry(Len(rels["prints"]) > 0, "print_reliability",
             compute_print_metrics(rels, cols))
    @@ [crash_analysis |-> compute_crash_metrics(rels, cols),
        update_analysis |-> compute_update_metrics(rels, cols),
        memory_analysis |-> compute_memory_metrics(rels, cols),
        hardware_analysis |-> compute_hardware_metrics(rels, cols),
        settings_analysis |-> compute_settings_metrics(rels, cols),
        panel_usage_analysis |-> compute_panel_usage_metrics(rels, cols),
        connection_analysis |-> compute_connection_metrics(rels, cols),
        print_start_analysis |-> compute_print_start_metrics(rels, cols),
        error_analysis |-> compute_error_metrics(rels, cols)]

\* the dict literal of compute_all, generated at instant now
compute_all_result(now, rels, df, cols) ==
    [generated_at |-> now,
     event_counts |-> event_counts(rels, df),
     adoption |-> compute_adoption_metrics(rels, cols),
     print_reliability |-> compute_print_metrics(rels, cols),
     crash_analysis |-> compute_crash_metrics(rels, cols),
     update_analysis |-> compute_update_metrics(rels, cols),
     memory_analysis |-> compute_memory_metrics(rels, cols),
     hardware_analysis |-> compute_hardware_metrics(rels, cols),
     settings_analysis |-> compute_settings_metrics(rels, cols),
     panel_usage_analysis |-> compute_panel_usage_metrics(rels, cols),
     connection_analysis |-> compute_connection_metrics(rels, cols),
     print_start_analysis |-> compute_print_start_metrics(rels, cols),
     error_analysis |-> compute_error_metrics(rels, cols)]

\* the same column assignment made on the frame itself, without the copy
FrameAfterAssignInPlace(df, col, vals) ==
    [i \in 1..Len(df) |-> SetCell(df[i], col, vals[i])]

\* "result = df.copy(); result[col] = vals": what the frame df holds after
\* the two statements (the assignment goes to the copy)
FrameAfterCopyAssign(df, col, vals) == df

\* the typed relations after the eleven calculators ran: the three column
\* assignments the calculators make (the joiner's, the print calculator's
\* duration_sec, the crash calculator's platform), each under its guards
RelationsAfterCalculators(rels, cols) ==
    LET s == rels["sessions"]
        p == rels["prints"]
        c == rels["crashes"]
        joins == Len(p) > 0 /\ "outcome" \in cols /\ Len(s) > 0
        p1 == IF joins /\ "printer.detected_model" \in cols
              THEN FrameAfterCopyAssign(p, "printer.detected_model",
                       Column(_join_session_field(s, cols, p,
                                  "printer.detected_model"),
                              "printer.detected_model"))
              ELSE p
        p2 == IF joins /\ "printer.kinematics" \in cols
              THEN FrameAfterCopyAssign(p1, "printer.kinematics",
                       Column(_join_session_field(s, cols, p1,
                                  "printer.kinematics"),
                              "printer.kinematics"))
              ELSE p1
        p3 == IF Len(p) > 0 /\ "duration_sec" \in cols /\ "outcome" \in cols
              THEN FrameAfterCopyAssign(p2, "duration_sec",
                       ToNumeric(Column(p2, "duration_sec")))
              ELSE p2
        c1 == IF Len(c) > 0 /\ Len(s) > 0 /\ "app.platform" \in cols
              THEN FrameAfterCopyAssign(c, "platform",
                       [i \in 1..Len(c) |->
                           MapCell(DeviceMap(s, "app.platform"),
                                   Cell(c[i], "device_id"))])
              ELSE c
    IN  [rels EXCEPT !["prints"] = p3, !["crashes"] = c1]

\* a value Python cannot hash: a JSON array or object
Unhashable(v) == v.k \in {"list", "dict"}

\* the columns each calculator passes to _distribution
DistributionColumns ==
    [adoption |->
         {"app.platform", "app.version", "printer.detected_model",
          "printer.kinematics", "app.display", "app.locale", "app.theme",
          "printer.klipper_version", "host.arch"},
     print_reliability |-> {},
     crash_analysis |-> {},
     update_analysis |-> {},
     memory_analysis |-> {},
     hardware_analysis |->
         {"printer.detected_model", "printer.kinematics", "mcus.primary",
          "extruders.count", "ams.type", "display_backend"},
     settings_analysis |-> {"theme", "locale", "time_format"},
     panel_usage_analysis |-> {},
     connection_analysis |-> {},
     print_start_analysis |->
         {"source", "slicer", "file_size_bucket", "estimated_duration_bucket"},
     error_analysis |-> {"category", "code", "context"}]

\* df[column].dropna().value_counts() raises TypeError when a cell of the
\* column cannot be hashed
_distribution_raises(df, cols, column) ==
    column \in cols /\ \E i \in 1..Len(df) : Unhashable(Cell(df[i], column))

\* the calculator of a domain raises: it is past its empty test and one of
\* its _distribution calls raises (the one failure the model follows; the
\* other columns hold scalars)
CalculatorRaises(key, rels, cols) ==
    /\ Len(rels[DomainRelation[key]]) > 0
    /\ \E column \in DistributionColumns[key] :
           _distribution_raises(rels[DomainRelation[key]], cols, column)

\* datetime.now(tz=timezone.utc): two instants the clock may show
NowChoices == {Instant(7), Instant(8)}

----------------------------------------------------------------------------
(* Inputs of the model.                                                    *)

\* calendar days 0..MaxDay carry events; a bound names one of them
MaxDay == 2
\* files in the data directory
MaxFiles == 2

Days == 0..MaxDay
Ticks == {0, 1, TicksPerDay - 1}

Raw(tag, ts) ==
    [event |-> Str(tag), device_id |-> Str("devA"), timestamp |-> ts,
     schema_version |-> Num(2)]

\* timestamps of the time samples: every day's first, second and last tick,
\* a string that is no date, and (below) no timestamp key at all
TimeSamples ==
    {Raw("crash", Iso(d, t)) @@ [signal |-> Num(11)] : d \in Days, t \in Ticks}
        \cup {Raw("crash", Str("yesterday")),
              [event |-> Str("crash"), device_id |-> Str("devB")]}

\* one raw event per payload shape, all stamped on day 1
ShapeSamples ==
    { Raw("session", Iso(1, 0)) @@
          [app |-> Dict([platform |-> Str("linux"), version |-> Str("1.2")]),
           host |-> Str("not-a-dict"),
           features |-> List(<<"ams">>), secret |-> Str("token")],
      Raw("print_outcome", Iso(1, 0)) @@
          [outcome |-> Str("success"), nozzle_temp |-> Num(210),
           secret |-> Str("token")],
      Raw("print_outcome", Iso(1, 0)) @@
          [outcome |-> Str("success"), nozzle_temp |-> Num(210)],
      Raw("hardware_profile", Iso(1, 0)) @@
          [printer |-> Dict([model |-> Str("V2")]),
           display_backend |-> Str("drm"), outcome |-> Str("success")],
      Raw("panel_usage", Iso(1, 0)) @@
          [panel_visits |-> Dict([home |-> Num(3)]),
           overlay_open_count |-> Num(1), app |-> Dict([v |-> Str("x")])],
      Raw("update_success", Iso(1, 0)) @@ [version |-> Str("1.3")],
      Raw("heartbeat", Iso(1, 0)) @@
          [outcome |-> Str("success"), secret |-> Str("token")],
      [device_id |-> Str("devB"), timestamp |-> Iso(1, 0),
       outcome |-> Str("failed")] }

Samples == TimeSamples \cup ShapeSamples

ListSamples ==
    {<<>>,
     <<Raw("print_outcome", Iso(1, 0)) @@
           [outcome |-> Str("success"), nozzle_temp |-> Num(210),
            secret |-> Str("token")],
       Raw("heartbeat", Iso(1, 0)) @@
           [outcome |-> Str("success"), secret |-> Str("token")]>>}

FileChoices ==
    {BadFile, ScalarFile, UndecodableFile}
        \cup {ListFile(l) : l \in ListSamples}
        \cup {DictFile(e) : e \in Samples}

DirChoices ==
    {MissingDir} \cup
    {DataDir(fs) : fs \in UNION {[1..n -> FileChoices] : n \in 0..MaxFiles}}

BoundChoices == {None} \cup {Date(d) : d \in Days}

----------------------------------------------------------------------------
(* The translation tool's run_obsolete. Its collaborators of obsolete.py   *)
(* are outside: each is a logged call, and what mark_obsolete_keys and     *)
(* delete_obsolete_keys answer is an input.                                *)

\* obsolete keys found, *.yml files in yaml_dir
MaxKeys == 2
MaxYaml == 2

\* no call of run_obsolete
NoObsolete == [pc |-> "idle"]

Call(name, dry_run) == [name |-> name, dry_run |-> dry_run]

\* ObsoleteResult(obsolete_keys = obsolete), would_delete = 0, deleted = 0
ObsoleteResult(calls, would_delete, deleted) ==
    [calls |-> calls, would_delete |-> would_delete, deleted |-> deleted]

\* a run_obsolete whose delete branch does not look at dry_run
run_obsolete_always_deletes(action, dry_run, keys, yml, marked, removed) ==
    CASE action = "report" ->
             ObsoleteResult(<<Call("report_obsolete_keys", FALSE)>>, 0, 0)
      [] action = "mark" ->
             ObsoleteResult(<<Call("mark_obsolete_keys", dry_run)>>,
                            IF dry_run THEN marked ELSE 0,
                            IF dry_run THEN 0 ELSE marked)
      [] action = "delete" ->
             ObsoleteResult(<<Call("delete_obsolete_keys", FALSE)>>,
                            keys * yml, removed)
      [] OTHER -> ObsoleteResult(<<>>, 0, 0)

\* run_obsolete after find_obsolete_keys: the calls it makes, in order, and
\* the counts of the result it returns
run_obsolete_result(action, dry_run, keys, yml, marked, removed) ==
    CASE action = "report" ->
             ObsoleteResult(<<Call("report_obsolete_keys", FALSE)>>, 0, 0)
      [] action = "mark" ->
             ObsoleteResult(<<Call("mark_obsolete_keys", dry_run)>>,
                            IF dry_run THEN marked ELSE 0,
                            IF dry_run THEN 0 ELSE marked)
      [] action = "delete" ->
             IF ~dry_run
             THEN ObsoleteResult(<<Call("delete_obsolete_keys", FALSE)>>,
                                 keys * yml, removed)
             ELSE ObsoleteResult(<<>>, keys * yml, 0)
      [] OTHER -> ObsoleteResult(<<>>, 0, 0)

----------------------------------------------------------------------------
(* The analyzer and main.                                                  *)

\* TelemetryAnalyzer.__init__: thirteen empty frames
EmptyRelations == [n \in RelNames |-> <<>>]

Init ==
    /\ bcall = NoCall
    /\ dir \in DirChoices
    /\ since \in BoundChoices
    /\ until \in BoundChoices
    /\ pc = "start"
    /\ raw = <<>>
    /\ flat_events = <<>>
    /\ all_events = <<>>
    /\ rel = EmptyRelations
    /\ report = NoReport
    /\ ocall = NoObsolete

\* analyzer.load_events(data_dir, since=args.since, until=args.until)
\* load_events leaves before it assigns any attribute: the three "return"
\* statements, and the exception of a file it cannot decode
load_returns_early(d) ==
    \/ ~d.exists
    \/ Len(d.files) = 0
    \/ LoaderRaises(d.files)
    \/ Len(LoadFiles(d.files, 1)) = 0

\* a load_events that starts by clearing the typed relations
RelationsAfterLoadCleared(d, s, u, old) ==
    IF load_returns_early(d) THEN EmptyRelations
    ELSE LET loaded == LoadFiles(d.files, 1)
             flat == [i \in 1..Len(loaded) |-> Normalize(loaded[i])]
         IN  TypedRelations(ParsedFrame(flat), s, u)

\* the twelve typed relations after load_events(d, s, u) on an analyzer that
\* held the relations old
RelationsAfterLoad(d, s, u, old) ==
    IF load_returns_early(d) THEN old
    ELSE LET loaded == LoadFiles(d.files, 1)
             flat == [i \in 1..Len(loaded) |-> Normalize(loaded[i])]
         IN  TypedRelations(ParsedFrame(flat), s, u)

\* the body of load_events(d, since, until)
LoadStep(d) ==
    /\ IF ~d.exists \/ Len(d.files) = 0 \/ LoaderRaises(d.files)
       THEN UNCHANGED <<raw, flat_events, all_events>>
       ELSE LET loaded == LoadFiles(d.files, 1)
            IN  /\ raw' = loaded
                /\ IF Len(loaded) = 0
                   THEN UNCHANGED <<flat_events, all_events>>
                   ELSE LET flat ==
                                [i \in 1..Len(loaded) |-> Normalize(loaded[i])]
                            df == WindowFilter(ParsedFrame(flat), since, until)
                        IN  /\ flat_events' = flat
                            /\ all_events' = df
    /\ rel' = RelationsAfterLoad(d, since, until, rel)

load_events ==
    /\ pc = "start"
    /\ pc' = IF dir.exists /\ LoaderRaises(dir.files)
             THEN "load_raised" ELSE "loaded"
    /\ LoadStep(dir)
    /\ UNCHANGED <<bcall, dir, since, until, report, ocall>>

\* main: "if analyzer.all_events.empty: sys.exit(0)"
\* a test that never finds the unified relation empty
EmptyNever(df) == FALSE

\* analyzer.all_events.empty
Empty(df) == Len(df) = 0

main_no_data ==
    /\ pc = "loaded"
    /\ Empty(all_events)
    /\ pc' = "exit0"
    /\ UNCHANGED <<bcall, dir, since, until, raw, flat_events, all_events, rel,
                   report, ocall>>

\* main: metrics = analyzer.compute_all()
compute_all ==
    /\ pc = "loaded"
    /\ ~Empty(all_events)
    /\ IF \E key \in DomainKeys :
              CalculatorRaises(key, rel, Columns(flat_events))
       THEN \* the exception leaves compute_all and main: no report
            /\ pc' = "raised"
            /\ UNCHANGED report
       ELSE /\ \E now \in NowChoices :
                   report' = compute_all_result(now, rel, all_events,
                                                Columns(flat_events))
            /\ pc' = "reported"
    /\ rel' = RelationsAfterCalculators(rel, Columns(flat_events))
    /\ UNCHANGED <<bcall, dir, since, until, raw, flat_events, all_events,
                   ocall>>

Next == load_events \/ main_no_data \/ compute_all

Spec == Init /\ [][Next]_vars

----------------------------------------------------------------------------
(* The bucketizer on its own: any table, any argument.                     *)

InitBucket ==
    /\ bcall = NoCall
    /\ dir = MissingDir
    /\ since = None
    /\ until = None
    /\ pc = "start"
    /\ raw = <<>>
    /\ flat_events = <<>>
    /\ all_events = <<>>
    /\ rel = EmptyRelations
    /\ report = NoReport
    /\ ocall = NoObsolete

call_bucket_value ==
    /\ \E t \in BucketNames, x \in BucketArgs :
           bcall' = [table |-> t, value |-> x,
                     result |-> bucket_value(x, BucketTables[t])]
    /\ UNCHANGED <<dir, since, until, pc, raw, flat_events, all_events, rel,
                   report, ocall>>

NextBucket == call_bucket_value

SpecBucket == InitBucket /\ [][NextBucket]_vars

----------------------------------------------------------------------------
(* An analyzer whose load_events is called twice, the second time on       *)
(* another directory.                                                      *)

ReloadDirs ==
    {MissingDir, DataDir(<<>>), DataDir(<<BadFile>>),
     DataDir(<<ScalarFile, ListFile(<<>>)>>), DataDir(<<UndecodableFile>>),
     DataDir(<<DictFile(Raw("update_success", Iso(1, 0)))>>)}

InitReload ==
    /\ bcall = NoCall
    /\ dir \in DirChoices
    /\ since = None
    /\ until = None
    /\ pc = "start"
    /\ raw = <<>>
    /\ flat_events = <<>>
    /\ all_events = <<>>
    /\ rel = EmptyRelations
    /\ report = NoReport
    /\ ocall = NoObsolete

load_events_again ==
    /\ pc = "loaded"
    /\ \E d \in ReloadDirs :
           /\ dir' = d
           /\ pc' = IF d.exists /\ LoaderRaises(d.files)
                    THEN "load_raised" ELSE "reloaded"
           /\ LoadStep(d)
    /\ UNCHANGED <<bcall, since, until, report, ocall>>

NextReload == load_events \/ load_events_again

SpecReload == InitReload /\ [][NextReload]_vars

----------------------------------------------------------------------------
(* run_obsolete called once, with every action and either dry_run.         *)

ObsoleteActions == {"report", "mark", "delete", "purge"}

InitObsolete ==
    /\ bcall = NoCall
    /\ dir = MissingDir
    /\ since = None
    /\ until = None
    /\ pc = "start"
    /\ raw = <<>>
    /\ flat_events = <<>>
    /\ all_events = <<>>
    /\ rel = EmptyRelations
    /\ report = NoReport
    /\ ocall \in [pc : {"called"}, action : ObsoleteActions,
                  dry_run : BOOLEAN, keys : 0..MaxKeys, yml : 0..MaxYaml,
                  marked : 0..(MaxKeys * MaxYaml),
                  removed : 0..(MaxKeys * MaxYaml),
                  result : {ObsoleteResult(<<>>, 0, 0)}]

run_obsolete ==
    /\ ocall.pc = "called"
    /\ ocall' = [ocall EXCEPT
                    !.pc = "returned",
                    !.result = run_obsolete_result(ocall.action, ocall.dry_run,
                                                   ocall.keys, ocall.yml,
                                                   ocall.marked, ocall.removed)]
    /\ UNCHANGED <<bcall, dir, since, until, pc, raw, flat_events, all_events,
                   rel, report>>

NextObsolete == run_obsolete

SpecObsolete == InitObsolete /\ [][NextObsolete]_vars

----------------------------------------------------------------------------
(* The calculators' inputs: one data file holding a short list of events,  *)
(* drawn from one family of samples at a time, with no window bound.       *)

\* events in the data file of a calculator run
MaxCalcEvents == 3

Ev(tag, dev) ==
    [event |-> Str(tag), device_id |-> Str(dev), timestamp |-> Iso(1, 0),
     schema_version |-> Num(2)]

\* sessions of device A: one with no app / printer section, two that differ
\* in every joined field
SessionSamples ==
    { Ev("session", "devA"),
      Ev("session", "devA") @@
          [app |-> Dict([platform |-> Str("linux"), version |-> Str("1.2")]),
           printer |-> Dict([detected_model |-> Str("V2"),
                             kinematics |-> Str("corexy")])],
      Ev("session", "devA") @@
          [app |-> Dict([platform |-> Str("android"),
                         version |-> Str("1.3")]),
           printer |-> Dict([detected_model |-> Str("K1"),
                             kinematics |-> Str("cartesian")]),
           features |-> List(<<"ams", "led">>)],
      Ev("session", "devB") @@
          [host |-> Dict([ram_total_mb |-> Num(1024)]), features |-> None] }

CrashSamples ==
    { Ev("crash", "devA") @@
          [signal |-> Num(11), signal_name |-> Str("SIGSEGV"),
           app_version |-> Str("1.2"), uptime_sec |-> Num(30)],
      Ev("crash", "devB") @@
          [app_version |-> Str("9.9"), uptime_sec |-> Str("n/a")] }

PrintSamples ==
    { Ev("print_outcome", "devA") @@ [outcome |-> Str("success")],
      Ev("print_outcome", "devB") @@ [outcome |-> Str("failed")],
      Ev("print_outcome", "devA") }

\* hardware profiles, print starts and connection reports, with and without
\* the values their percentages are taken over
DeviceSamples ==
    { Ev("hardware_profile", "devA") @@
          [printer |-> Dict([detected_model |-> Str("V2")]),
           capabilities |-> Dict([has_chamber |-> Bool(TRUE),
                                  has_timelapse |-> None]),
           display_backend |-> Str("drm")],
      Ev("hardware_profile", "devB") @@
          [capabilities |-> Dict([has_chamber |-> Bool(FALSE)])],
      Ev("print_start_context", "devA") @@ [source |-> Str("local")],
      Ev("print_start_context", "devB") @@
          [has_thumbnail |-> Bool(TRUE), ams_active |-> Bool(FALSE)],
      Ev("connection_stability", "devA") @@
          [session_duration_sec |-> Num(0), total_connected_sec |-> Num(0),
           connect_count |-> Num(1)],
      Ev("connection_stability", "devB") @@
          [session_duration_sec |-> Num(100), total_connected_sec |-> Num(75),
           longest_disconnect_sec |-> Num(20)] }

\* one event of each remaining type
OtherSamples ==
    { Ev("update_failed", "devA") @@
          [reason |-> Str("checksum"), platform |-> Str("pi")],
      Ev("update_success", "devA") @@ [version |-> Str("1.3")],
      Ev("memory_snapshot", "devA") @@
          [rss_kb |-> Num(1000), vm_size_kb |-> Str("n/a")],
      Ev("settings_snapshot", "devA") @@
          [theme |-> Str("dark"), brightness_pct |-> Num(80)],
      Ev("panel_usage", "devA") @@
          [panel_time_sec |-> Dict([home |-> Num(60)]),
           panel_visits |-> Dict([home |-> Num(3), print |-> Num(1)]),
           session_duration_sec |-> Num(120)],
      Ev("error_encountered", "devA") @@
          [category |-> Str("net"), code |-> Str("E1")] }

\* an error report whose category is a JSON array, next to events of two
\* other types
FailingSamples ==
    { Ev("error_encountered", "devA") @@
          [category |-> List(<<"net">>), code |-> Str("E1")],
      Ev("error_encountered", "devB") @@
          [category |-> Str("net"), code |-> Str("E2")],
      Ev("settings_snapshot", "devA") @@ [theme |-> Str("dark")] }

\* sessions by their features value: no features key, a list, a list that
\* names one feature twice, a string
FeatureSamples ==
    { Ev("session", "devA"),
      Ev("session", "devA") @@ [features |-> List(<<"ams", "led">>)],
      Ev("session", "devB") @@ [features |-> List(<<"ams", "ams">>)],
      Ev("session", "devB") @@ [features |-> Str("ams")] }

\* sessions by their RAM value and prints by their temperatures: in a range,
\* negative or zero, no number, and the Infinity that json.load accepts
MeasureSamples ==
    { Ev("session", "devA") @@ [host |-> Dict([ram_total_mb |-> Num(1024)])],
      Ev("session", "devA") @@ [host |-> Dict([ram_total_mb |-> Num(0 - 5)])],
      Ev("session", "devB") @@ [host |-> Dict([ram_total_mb |-> Str("n/a")])],
      Ev("session", "devB") @@ [host |-> Dict([ram_total_mb |-> PosInf])],
      Ev("print_outcome", "devA") @@
          [outcome |-> Str("success"), duration_sec |-> Num(90),
           nozzle_temp |-> Num(210), bed_temp |-> Num(60)],
      Ev("print_outcome", "devA") @@
          [outcome |-> Str("success"), duration_sec |-> Str("n/a"),
           nozzle_temp |-> Num(0), bed_temp |-> Str("n/a")],
      Ev("print_outcome", "devB") @@
          [outcome |-> Str("failed"), nozzle_temp |-> PosInf,
           bed_temp |-> Num(0 - 1)] }

Families ==
    {SessionSamples \cup CrashSamples, SessionSamples \cup PrintSamples,
     DeviceSamples, OtherSamples, FailingSamples, FeatureSamples,
     MeasureSamples}

\* prints of one device in a batch
MaxBatch == 5

PrintOf(dev, outcome) ==
    Ev("print_outcome", dev) @@ [outcome |-> Str(outcome)]

\* n prints of a device, the first s of them successful
Batch(dev, n, s) ==
    [i \in 1..n |-> PrintOf(dev, IF i <= s THEN "success" ELSE "failed")]

SessionOf(dev, model, kinematics) ==
    Ev("session", dev) @@
        [printer |-> Dict([detected_model |-> Str(model),
                           kinematics |-> Str(kinematics)])]

\* no session at all, two devices with different printers, two devices with
\* the same model
BatchSessions ==
    {<<>>,
     <<SessionOf("devA", "V2", "corexy"), SessionOf("devB", "K1", "cartesian")>>,
     <<SessionOf("devA", "V2", "corexy"), SessionOf("devB", "V2", "cartesian")>>}

\* a device prints nothing, or just below the batch size, or the whole batch
BatchSizes == {0, MaxBatch - 1, MaxBatch}

BatchLists ==
    {ss \o Batch("devA", b[1], b[2]) \o Batch("devB", b[3], b[4]) :
        ss \in BatchSessions,
        b \in {q \in BatchSizes \X (0..MaxBatch) \X BatchSizes \X (0..MaxBatch) :
                  q[2] <= q[1] /\ q[4] <= q[3]}}

\* five prints of one device: success, success, failed, success, cancelled
ScenarioPrints ==
    <<PrintOf("devA", "success"), PrintOf("devA", "success"),
      PrintOf("devA", "failed"), PrintOf("devA", "success"),
      PrintOf("devA", "cancelled")>>

CalcLists ==
    UNION {UNION {[1..n -> fam] : n \in 0..MaxCalcEvents} : fam \in Families}
        \cup BatchLists \cup {ScenarioPrints}

InitCalc ==
    /\ bcall = NoCall
    /\ dir \in {DataDir(<<ListFile(l)>>) : l \in CalcLists}
    /\ since = None
    /\ until = None
    /\ pc = "start"
    /\ raw = <<>>
    /\ flat_events = <<>>
    /\ all_events = <<>>
    /\ rel = EmptyRelations
    /\ report = NoReport
    /\ ocall = NoObsolete

SpecCalc == InitCalc /\ [][Next]_vars

----------------------------------------------------------------------------
(* Claims about the bucketizer, checked under SpecBucket.                  *)

Called == bcall.table \in BucketNames

\* the triples of table t that the number n falls in, by integer arithmetic
Matching(t, n) ==
    {i \in 1..Len(BucketTables[t]) :
        /\ BucketTables[t][i][1].v <= n
        /\ (BucketTables[t][i][2].k = "inf" \/ n < BucketTables[t][i][2].v)}

\* the label the contract names for a finite number: that of the first
\* matching triple, "unknown" when there is none
FirstMatchLabel(t, n) ==
    IF Matching(t, n) = {} THEN "unknown"
    ELSE LET i == CHOOSE j \in Matching(t, n) :
                      \A m \in Matching(t, n) : j <= m
         IN  BucketTables[t][i][3]

ContractLabel(t, x) ==
    CASE x.k \in {"null", "nan", "str"} -> "unknown"
      [] x.k \in {"inf", "ninf"} -> "unknown"
      [] OTHER -> FirstMatchLabel(t, x.v)

\* C1: bucket_value returns "unknown" for a null, NaN or non-numeric value,
\* else the label of the first triple with low <= value < high, else
\* "unknown".  The code raises TypeError on a str argument.
C1_BucketContract ==
    Called => bcall.result = Ret(ContractLabel(bcall.table, bcall.value))

\* the part of C1 the code does satisfy: every argument that is not a str
C1_HoldsForNullAndNumbers ==
    (Called /\ bcall.value.k # "str")
        => bcall.result = Ret(ContractLabel(bcall.table, bcall.value))

\* C2: in each of the four tables a non-negative (real) number is matched
\* by exactly one range and gets that range's label, no call on a number or
\* a null raises, and a negative or null value gets "unknown".
C2_ExactlyOneLabel ==
    Called =>
        LET t == bcall.table
            x == bcall.value
        IN  /\ (x.k = "num" /\ x.v >= 0) =>
                   /\ Cardinality(Matching(t, x.v)) = 1
                   /\ \E i \in Matching(t, x.v) :
                          bcall.result = Ret(BucketTables[t][i][3])
                   /\ bcall.result # Ret("unknown")
            /\ (x.k # "str") => bcall.result.k = "ret"
            /\ ((x.k = "num" /\ x.v < 0) \/ x.k \in {"ninf", "null"}) =>
                   bcall.result = Ret("unknown")

C2_Witness ==
    /\ bcall.table = "bed"
    /\ bcall.value = Num(120)
    /\ bcall.result = Ret("120C+")

\* the boundaries and labels the specification enumerates
SpecBoundaries ==
    [ram |-> <<0, 512, 1024, 2048, 4096, 8192>>,
     nozzle |-> <<0, 180, 200, 220, 250, 280, 310>>,
     bed |-> <<0, 40, 60, 80, 100, 120>>,
     uptime |-> <<0, 60, 300, 900, 3600, 14400>>]

SpecLabels ==
    [ram |-> <<"<512MB", "512MB-1GB", "1-2GB", "2-4GB", "4-8GB", "8GB+">>,
     nozzle |-> <<"<180C", "180-200C", "200-220C", "220-250C", "250-280C",
                  "280-310C", "310C+">>,
     bed |-> <<"<40C", "40-60C", "60-80C", "80-100C", "100-120C", "120C+">>,
     uptime |-> <<"<1min", "1-5min", "5-15min", "15min-1hr", "1-4hr",
                  "4hr+">>]

\* C3: the tables have exactly the enumerated boundaries, each range ends
\* where the next begins and the last is unbounded, and a value equal to a
\* boundary gets the label of the range it is the lower bound of
\* (2048 MB is "2-4GB").
C3_Boundaries ==
    /\ \A t \in BucketNames :
           /\ Len(BucketTables[t]) = Len(SpecBoundaries[t])
           /\ \A i \in 1..Len(BucketTables[t]) :
                  /\ BucketTables[t][i][1] = Num(SpecBoundaries[t][i])
                  /\ BucketTables[t][i][3] = SpecLabels[t][i]
                  /\ BucketTables[t][i][2] =
                         IF i = Len(BucketTables[t]) THEN PosInf
                         ELSE BucketTables[t][i + 1][1]
    /\ Called =>
           \A i \in 1..Len(SpecBoundaries[bcall.table]) :
               bcall.value = Num(SpecBoundaries[bcall.table][i])
                   => bcall.result = Ret(SpecLabels[bcall.table][i])

C3_Witness ==
    /\ bcall.table = "ram"
    /\ bcall.value = Num(2048)
    /\ bcall.result = Ret("2-4GB")

----------------------------------------------------------------------------
(* Claims about ingestion, checked under Spec.                             *)

\* load_events ran to its end: it built and split a frame
Loaded == pc # "start" /\ dir.exists /\ Len(raw) > 0

RecognizedTags == {Str(RelTag[n]) : n \in RelNames}

RECURSIVE SumLen(_, _)
SumLen(rels, names) ==
    IF names = {} THEN 0
    ELSE LET n == CHOOSE m \in names : TRUE
         IN  Len(rels[n]) + SumLen(rels, names \ {n})

RECURSIVE SumCounts(_, _)
SumCounts(counts, names) ==
    IF names = {} THEN 0
    ELSE LET n == CHOOSE m \in names : TRUE
         IN  counts[n] + SumCounts(counts, names \ {n})

Unrecognized(df) == SelectSeq(df, LAMBDA r : r["event"] \notin RecognizedTags)

\* the typed relations a row occurs in
HomesOf(r) == {n \in RelNames : \E j \in 1..Len(rel[n]) : rel[n][j] = r}

\* C4 as stated: the unified relation is as long as eleven split relations
\* and the unrecognized rows together, whichever eleven of the analyzer's
\* typed relations are taken.  The analyzer has twelve.
C4_ElevenRelations ==
    \A out \in RelNames :
        Len(all_events) =
            SumLen(rel, RelNames \ {out}) + Len(Unrecognized(all_events))

\* C4 amended: every row of the unified relation is in exactly one of the
\* twelve typed relations when its tag is recognized and in none otherwise,
\* the unified relation is as long as the twelve typed relations and the
\* unrecognized rows together, and compute_all's event counts satisfy the
\* same equation.
C4_Partition ==
    /\ Cardinality(RelNames) = 12
    /\ \A i \in 1..Len(all_events) :
           Cardinality(HomesOf(all_events[i])) =
               IF all_events[i]["event"] \in RecognizedTags THEN 1 ELSE 0
    /\ Len(all_events) =
           SumLen(rel, RelNames) + Len(Unrecognized(all_events))
    /\ pc = "reported" =>
           report.event_counts["total"] =
               SumCounts(report.event_counts, RelNames)
                   + Len(Unrecognized(all_events))

C4_Witness ==
    /\ pc = "reported"
    /\ Len(Unrecognized(all_events)) > 0
    /\ Len(rel["update_successes"]) > 0
    /\ Len(rel["prints"]) > 0

NoWindow == ~Truthy(since) /\ ~Truthy(until)

\* C5: with no window the unified relation has one row per loaded raw event,
\* in input order: row i carries raw event i's tag, device id and schema
\* version, its parsed timestamp, and is raw event i's normalized row.
C5_OneRowPerEvent ==
    (Loaded /\ NoWindow) =>
        /\ Len(all_events) = Len(raw)
        /\ \A i \in 1..Len(raw) :
               /\ \A f \in {"event", "device_id", "schema_version"} :
                      all_events[i][f] = Get(raw[i], f)
               /\ all_events[i]["timestamp"] =
                      ParseTimestamp(Get(raw[i], "timestamp"))
               /\ \A f \in DOMAIN flat_events[i] \ {"timestamp"} :
                      all_events[i][f] = flat_events[i][f]
               /\ DOMAIN all_events[i] = DOMAIN flat_events[i]

C5_Witness ==
    /\ Loaded /\ NoWindow
    /\ Len(raw) >= 3
    /\ \E i \in 1..Len(raw) : Get(raw[i], "event") \notin RecognizedTags
    /\ \E i \in 1..Len(raw) : all_events[i]["timestamp"] = NaT

\* the calendar day of a parsed timestamp
DayOf(ts) == ts.v \div TicksPerDay

\* the window as the claims describe it, on calendar days
InWindowDays(r) ==
    /\ Truthy(since) =>
           r["timestamp"].k = "instant" /\ DayOf(r["timestamp"]) >= since.v
    /\ Truthy(until) =>
           r["timestamp"].k = "instant" /\ DayOf(r["timestamp"]) <= until.v

\* C6: a raw event with an unrecognized or missing tag yields a row of the
\* four universal fields only; the row is in the unified relation (when it
\* passes the window) and in no typed relation.
C6_UnknownTagRow ==
    Loaded =>
        /\ \A i \in 1..Len(raw) :
               Get(raw[i], "event") \notin RecognizedTags =>
                   /\ DOMAIN flat_events[i] = UniversalFields
                   /\ \A f \in UniversalFields :
                          flat_events[i][f] = Get(raw[i], f)
        /\ Unrecognized(all_events) =
               SelectSeq(Unrecognized(ParsedFrame(flat_events)), InWindowDays)
        /\ \A n \in RelNames : Unrecognized(rel[n]) = <<>>

C6_Witness ==
    /\ Loaded
    /\ \E i \in 1..Len(raw) :
           /\ "event" \notin DOMAIN raw[i]
           /\ "outcome" \in DOMAIN raw[i]
    /\ \E i \in 1..Len(raw) :
           /\ Get(raw[i], "event") = Str("heartbeat")
           /\ "secret" \in DOMAIN raw[i]
    /\ Len(Unrecognized(all_events)) = 2
    /\ Len(all_events) > 2

\* the keys of a raw event its type's fixed list names
AllowedTop(ev) ==
    UniversalFields \cup TopFields(TagOf(ev)) \cup Sections(TagOf(ev))
        \cup (IF TagOf(ev) = "session" THEN {"features"} ELSE {})

\* the raw event without its fields outside the allow-list
Allowed(ev) == [key \in DOMAIN ev \cap AllowedTop(ev) |-> ev[key]]

\* the keys a normalized row of the raw event may carry
AllowedFlat(ev) ==
    UniversalFields \cup TopFields(TagOf(ev))
        \cup (IF TagOf(ev) = "session" THEN {"features"} ELSE {})
        \cup UNION {{FlatKey(sec, key) : key \in DOMAIN SubItems(ev, sec)} :
                       sec \in Sections(TagOf(ev))}

\* C7: a normalized row carries only the universal fields and the fields of
\* its type's fixed list (section.key for the nested sections), and two raw
\* events that agree on the allow-listed fields normalize to the same row.
C7_AllowList ==
    Loaded =>
        /\ \A i \in 1..Len(raw) :
               DOMAIN flat_events[i] \subseteq AllowedFlat(raw[i])
        /\ \A i, j \in 1..Len(raw) :
               Allowed(raw[i]) = Allowed(raw[j])
                   => flat_events[i] = flat_events[j]

C7_Witness ==
    /\ Loaded
    /\ \E i, j \in 1..Len(raw) :
           /\ raw[i] # raw[j]
           /\ TagOf(raw[i]) = "print_outcome"
           /\ Allowed(raw[i]) = Allowed(raw[j])
           /\ flat_events[i] = flat_events[j]
    /\ \E i \in 1..Len(raw) :
           /\ "secret" \in DOMAIN raw[i]
           /\ DOMAIN flat_events[i] = UniversalFields \cup TopFields("print_outcome")

\* C8: the window keeps exactly the rows stamped on a day d with
\* since <= d <= until (since 00:00 UTC <= timestamp < until + 1 day), in
\* order; a bound that is not supplied restricts nothing.
C8_Window ==
    Loaded => all_events = SelectSeq(ParsedFrame(flat_events), InWindowDays)

\* until = day 1 keeps the last tick of day 1 and drops the second tick of
\* day 2
C8_Witness ==
    /\ Loaded
    /\ until = Date(1)
    /\ \E i \in 1..Len(raw) :
           Get(raw[i], "timestamp") = Iso(1, TicksPerDay - 1)
    /\ \E i \in 1..Len(raw) : Get(raw[i], "timestamp") = Iso(2, 1)
    /\ Len(all_events) = 1
    /\ all_events[1]["timestamp"] = Instant(2 * TicksPerDay - 1)

HasNaT(df) == \E i \in 1..Len(df) : df[i]["timestamp"] = NaT

BadTimestamps(evs) ==
    SelectSeq(evs, LAMBDA ev : Get(ev, "timestamp").k # "iso")

\* C9: a row whose timestamp is absent or does not parse is kept, with a
\* null timestamp, when neither bound is supplied, and is in neither the
\* unified relation nor a typed relation when a bound is supplied.
C9_UnparsedTimestamps ==
    Loaded =>
        /\ NoWindow =>
               /\ \A i \in 1..Len(raw) :
                      Get(raw[i], "timestamp").k # "iso"
                          => all_events[i]["timestamp"] = NaT
               /\ Len(SelectSeq(all_events,
                                LAMBDA r : r["timestamp"] = NaT))
                      = Len(BadTimestamps(raw))
        /\ ~NoWindow =>
               /\ ~HasNaT(all_events)
               /\ \A n \in RelNames : ~HasNaT(rel[n])

C9_Witness ==
    /\ Loaded
    /\ Truthy(until) /\ ~Truthy(since)
    /\ Len(BadTimestamps(raw)) = 1
    /\ Len(all_events) = Len(raw) - 1
    /\ Len(all_events) > 0

\* C10: filtering the already-filtered unified relation again, with the
\* same bounds, gives the same relation.
C10_Idempotent ==
    Loaded => WindowFilter(all_events, since, until) = all_events

C10_Witness ==
    /\ Loaded
    /\ Truthy(since) /\ Truthy(until)
    /\ Len(all_events) > 0
    /\ Len(all_events) < Len(raw)

----------------------------------------------------------------------------
(* Claims about the split relations, the joiner and the calculators.       *)

\* C11: the window filter runs once, before the split: with a bound
\* supplied every row of every typed relation is stamped inside the window,
\* and the typed relations are the split of the filtered unified relation.
C11_SplitAfterFilter ==
    Loaded =>
        /\ \A n \in RelNames : \A j \in 1..Len(rel[n]) :
               InWindowDays(rel[n][j])
        /\ rel = Split(all_events)

C11_Witness ==
    /\ Loaded
    /\ Truthy(since) /\ Truthy(until)
    /\ Len(rel["crashes"]) = 1
    /\ Len(all_events) = 1
    /\ Len(SelectTag(ParsedFrame(flat_events), "crash")) = 2

\* C12: the joiner attaches to each target row the field's value in the
\* first session row of the row's device, null when the device has no session
\* row or that row lacks the field, and never a later session's value.
FirstSessionValue(sessions, dev, field) ==
    LET own == SelectSeq(sessions, LAMBDA r : Cell(r, "device_id") = dev)
    IN  IF Len(own) = 0 THEN NaN ELSE Cell(own[1], field)

SameCell(a, b) == (IsNull(a) /\ IsNull(b)) \/ a = b

JoinedPrints(field) ==
    _join_session_field(rel["sessions"], Columns(flat_events), rel["prints"],
                        field)

C12_JoinFirstSession ==
    Loaded =>
        \A field \in {"printer.detected_model", "printer.kinematics"} :
            LET joined == JoinedPrints(field)
            IN  /\ Len(joined) = Len(rel["prints"])
                /\ \A i \in 1..Len(joined) :
                       SameCell(Cell(joined[i], field),
                                FirstSessionValue(rel["sessions"],
                                    Cell(joined[i], "device_id"), field))

\* C14: each of the eleven calculators returns exactly {"note": message}
\* when its primary relation is empty (the update calculator: when update
\* failures and update successes are both empty), and a mapping with no
\* "note" key when it is not.
Reported == pc = "reported"

PrimaryEmpty(key) ==
    IF key = "update_analysis"
    THEN Len(rel["update_failures"]) + Len(rel["update_successes"]) = 0
    ELSE Len(rel[DomainRelation[key]]) = 0

IsNote(result) == DOMAIN result = {"note"} /\ result["note"].k = "str"

C14_NoteIffEmpty ==
    Reported =>
        \A key \in DomainKeys :
            IF PrimaryEmpty(key) THEN IsNote(report[key])
            ELSE "note" \notin DOMAIN report[key]

C14_Witness ==
    /\ Reported
    /\ Len(rel["update_failures"]) = 0
    /\ Len(rel["update_successes"]) > 0
    /\ "success_rate" \in DOMAIN report["update_analysis"]
    /\ IsNote(report["error_analysis"])
    /\ IsNote(report["adoption"])

\* C15 (as stated): no rate or percentage is NaN, and a rate or percentage
\* whose denominator is zero (crash_rate with no session, a version's crash
\* rate with no session of that version, a capability / thumbnail / AMS
\* percentage with no non-null value, overall_connected_pct with zero total
\* duration, feature adoption with no feature list) is null or absent.
NullOrAbsent(result, key) == key \in DOMAIN result => result[key] = None

\* no row of the relation holds a non-null value in the column
NoValue(relation, col) ==
    \A i \in 1..Len(relation) : IsNull(Cell(relation[i], col))

\* no row of the relation holds a positive number in the column
NoPositive(relation, col) ==
    \A i \in 1..Len(relation) :
        Cell(relation[i], col).k # "num" \/ Cell(relation[i], col).v <= 0

\* the rates and percentages of the report, as a set of values
ReportedRates ==
    LET crash == report["crash_analysis"]
        prints == report["print_reliability"]
        top(result, keys) == {result[key] : key \in keys \cap DOMAIN result}
        inner(result, keys) ==
            UNION {{result[key].v[x] : x \in DOMAIN result[key].v} :
                      key \in keys \cap DOMAIN result}
        items(result, keys) ==
            UNION {{result[key].v[i][2] : i \in DOMAIN result[key].v} :
                      key \in keys \cap DOMAIN result}
    IN  top(crash, {"crash_rate"})
        \cup inner(crash, {"crash_rate_per_version"})
        \cup top(report["update_analysis"], {"success_rate"})
        \cup top(report["hardware_analysis"],
                 {cap \o "_pct" : cap \in Capabilities})
        \cup top(report["print_start_analysis"],
                 {"thumbnail_pct", "ams_active_pct"})
        \cup top(report["connection_analysis"], {"overall_connected_pct"})
        \cup items(report["adoption"], {"feature_adoption_rates"})
        \cup inner(prints, {"outcome_rates", "success_rate_weekly"})
        \cup {e.rate : e \in items(prints, {"success_rate_by_model",
                                             "success_rate_by_kinematics"})}

NoRateIsNaN == \A r \in ReportedRates : r.k \in {"dec1", "dec4", "num", "null"}

\* the zero-denominator cases the code reports as null or leaves out
NullOrAbsentCases ==
    /\ Len(rel["sessions"]) = 0 =>
           NullOrAbsent(report["crash_analysis"], "crash_rate")
    /\ "crash_rate_per_version" \in DOMAIN report["crash_analysis"] =>
           LET per_version == report["crash_analysis"]["crash_rate_per_version"].v
           IN  \A ver \in DOMAIN per_version :
                   (\A i \in 1..Len(rel["sessions"]) :
                        Cell(rel["sessions"][i], "app.version") # ver)
                       => per_version[ver] = None
    /\ NoPositive(rel["connection_stability"], "session_duration_sec") =>
           "overall_connected_pct" \notin DOMAIN report["connection_analysis"]
    /\ (\A i \in 1..Len(rel["sessions"]) :
            Cell(rel["sessions"][i], "features").k # "list") =>
           \/ "feature_adoption_rates" \notin DOMAIN report["adoption"]
           \/ report["adoption"]["feature_adoption_rates"] = Items(<<>>)

\* the percentages taken over the non-null values of a column, with the
\* relation and the column of each
SharePcts ==
    {<<"hardware_analysis", cap \o "_pct", "hardware_profiles", cap>> :
        cap \in Capabilities}
    \cup {<<"print_start_analysis", "thumbnail_pct", "print_starts",
            "has_thumbnail">>,
          <<"print_start_analysis", "ams_active_pct", "print_starts",
            "ams_active">>}

C15_ZeroDenominatorNullOrAbsent ==
    Reported =>
        /\ NoRateIsNaN
        /\ NullOrAbsentCases
        /\ \A s \in SharePcts :
               NoValue(rel[s[3]], s[4]) => NullOrAbsent(report[s[1]], s[2])

\* C15 (amended): as above, except that a capability / thumbnail / AMS
\* percentage with no non-null value is reported as 0 whenever its column
\* exists.
C15_ZeroDenominator ==
    Reported =>
        /\ NoRateIsNaN
        /\ NullOrAbsentCases
        /\ \A s \in SharePcts :
               (NoValue(rel[s[3]], s[4]) /\ s[2] \in DOMAIN report[s[1]])
                   => report[s[1]][s[2]] = Num(0)

C15_Witness ==
    /\ Reported
    /\ Len(rel["hardware_profiles"]) > 0
    /\ NoValue(rel["hardware_profiles"], "capabilities.has_timelapse")
    /\ "capabilities.has_timelapse_pct" \in DOMAIN report["hardware_analysis"]
    /\ report["hardware_analysis"]["capabilities.has_timelapse_pct"] = Num(0)
    /\ Len(rel["connection_stability"]) > 0
    /\ "overall_connected_pct" \notin DOMAIN report["connection_analysis"]
    /\ Len(rel["print_starts"]) > 0
    /\ report["print_start_analysis"]["thumbnail_pct"] = Num(0)

\* C16 (as stated): with no session row and no crash row the crash
\* calculator's result has the key crash_rate, and its value is null.
C16_NullCrashRateWithoutCrashes ==
    (Reported /\ Len(rel["sessions"]) = 0 /\ Len(rel["crashes"]) = 0) =>
        /\ "crash_rate" \in DOMAIN report["crash_analysis"]
        /\ report["crash_analysis"]["crash_rate"] = None

\* C16 (amended): with no session row, crash_rate is null when there is a
\* crash row; with no crash row the result is the note mapping, which has no
\* crash_rate key at all (no 0, no exception).
C16_CrashRateWithoutSessions ==
    (Reported /\ Len(rel["sessions"]) = 0) =>
        IF Len(rel["crashes"]) > 0
        THEN /\ "crash_rate" \in DOMAIN report["crash_analysis"]
             /\ report["crash_analysis"]["crash_rate"] = None
        ELSE report["crash_analysis"] = [note |-> Str("No crash data")]

C16_Witness ==
    /\ Reported
    /\ Len(rel["sessions"]) = 0
    /\ Len(rel["crashes"]) = 0
    /\ "crash_rate" \notin DOMAIN report["crash_analysis"]

\* C17: crashes_by_platform counts every crash row once, under the
\* app.platform of the first session of the crash's device and under
\* "unknown" when that gives no platform; its counts sum to total_crashes,
\* and one crash of a device whose only session is on "linux" gives
\* {"linux": 1}.
PlatformOfFirstSession(crash) ==
    LET platform == FirstSessionValue(rel["sessions"],
                                      Cell(crash, "device_id"), "app.platform")
    IN  IF IsNull(platform) THEN Str("unknown") ELSE platform

RECURSIVE SumOver(_, _)
SumOver(counts, keys) ==
    IF keys = {} THEN 0
    ELSE LET x == CHOOSE y \in keys : TRUE
         IN  counts[x] + SumOver(counts, keys \ {x})

C17_CrashesByPlatform ==
    (Reported /\ "crashes_by_platform" \in DOMAIN report["crash_analysis"]) =>
        LET by_platform == report["crash_analysis"]["crashes_by_platform"].v
            c == rel["crashes"]
        IN  /\ SumOver(by_platform, DOMAIN by_platform) = Len(c)
            /\ DOMAIN by_platform =
                   {PlatformOfFirstSession(c[i]) : i \in 1..Len(c)}
            /\ \A label \in DOMAIN by_platform :
                   by_platform[label] =
                       Cardinality({i \in 1..Len(c) :
                                       PlatformOfFirstSession(c[i]) = label})

\* C18: for a non-empty print relation, total_prints is the number of
\* print rows, outcome_counts maps each outcome to its number of rows, and
\* outcome_rates[k] is outcome_counts[k] / total_prints x 100 rounded to one
\* decimal; the outcomes success, success, failed, success, cancelled give
\* counts 3 / 1 / 1 and rates 60.0 / 20.0 / 20.0.
Outcomes == [i \in 1..Len(rel["prints"]) |-> Cell(rel["prints"][i], "outcome")]

RowsWithOutcome(o) == Cardinality({i \in 1..Len(Outcomes) : Outcomes[i] = o})

\* tenths is count / total x 100 to the nearest tenth
IsPctOf(tenths, count, total) ==
    LET diff == tenths * total - 1000 * count
    IN  2 * diff <= total /\ 2 * diff >= -total

C18_OutcomeCountsAndRates ==
    (Reported /\ Len(rel["prints"]) > 0) =>
        LET result == report["print_reliability"]
            seen == {Outcomes[i] : i \in 1..Len(Outcomes)} \ {None, NaN}
        IN  /\ {"total_prints", "outcome_counts", "outcome_rates"}
                   \subseteq DOMAIN result
            /\ result["total_prints"] = Num(Len(rel["prints"]))
            /\ DOMAIN result["outcome_counts"].v = seen
            /\ DOMAIN result["outcome_rates"].v = seen
            /\ \A o \in seen :
                   /\ result["outcome_counts"].v[o] = RowsWithOutcome(o)
                   /\ result["outcome_rates"].v[o].k = "dec1"
                   /\ IsPctOf(result["outcome_rates"].v[o].v,
                              RowsWithOutcome(o), Len(rel["prints"]))
            /\ Outcomes = <<Str("success"), Str("success"), Str("failed"),
                            Str("success"), Str("cancelled")>> =>
                   /\ result["outcome_counts"].v =
                          (Str("success") :> 3 @@ Str("failed") :> 1
                               @@ Str("cancelled") :> 1)
                   /\ result["outcome_rates"].v =
                          (Str("success") :> Dec1(600) @@ Str("failed") :> Dec1(200)
                               @@ Str("cancelled") :> Dec1(200))

C18_Witness ==
    /\ Reported
    /\ Outcomes = <<Str("success"), Str("success"), Str("failed"),
                    Str("success"), Str("cancelled")>>
    /\ report["print_reliability"]["total_prints"] = Num(5)
    /\ report["print_reliability"]["outcome_rates"].v[Str("success")] = Dec1(600)

\* C19: success_rate_by_model holds exactly the joined printer models with
\* at least 5 print rows, each with its rate (successes / total x 100, at the
\* report's one decimal) and its total, in order of descending rate;
\* success_rate_by_kinematics holds every joined kinematics value with at
\* least one print row, in the same form.
MinModelPrints == 5

\* the print rows whose joined field has the value
JoinedRows(field, value) ==
    {i \in 1..Len(rel["prints"]) : Cell(JoinedPrints(field)[i], field) = value}

JoinedValues(field) ==
    {Cell(JoinedPrints(field)[i], field) : i \in 1..Len(rel["prints"])}
        \ {None, NaN}

RatesAreRight(items, field, minimum) ==
    /\ {items[i][1] : i \in DOMAIN items} =
           {value \in JoinedValues(field) :
               Cardinality(JoinedRows(field, value)) >= minimum}
    /\ \A i, j \in DOMAIN items : i # j => items[i][1] # items[j][1]
    /\ \A i \in DOMAIN items :
           LET rows == JoinedRows(field, items[i][1])
               successes == {r \in rows : Outcomes[r] = Str("success")}
           IN  /\ DOMAIN items[i][2] = {"rate", "total"}
               /\ items[i][2].total = Cardinality(rows)
               /\ IsPctOf(items[i][2].rate.v, Cardinality(successes),
                          Cardinality(rows))
    /\ \A i, j \in DOMAIN items :
           i < j => items[i][2].rate.v >= items[j][2].rate.v

C19_SuccessRateByModel ==
    (Reported /\ Len(rel["prints"]) > 0 /\ Len(rel["sessions"]) > 0) =>
        LET result == report["print_reliability"]
        IN  /\ {"success_rate_by_model", "success_rate_by_kinematics"}
                   \subseteq DOMAIN result
            /\ RatesAreRight(result["success_rate_by_model"].v,
                             "printer.detected_model", MinModelPrints)
            /\ RatesAreRight(result["success_rate_by_kinematics"].v,
                             "printer.kinematics", 1)

C19_Witness ==
    /\ Reported
    /\ Len(rel["prints"]) = 2 * MinModelPrints - 1
    /\ "success_rate_by_model" \in DOMAIN report["print_reliability"]
    /\ LET by_model == report["print_reliability"]["success_rate_by_model"].v
           by_kin == report["print_reliability"]["success_rate_by_kinematics"].v
       IN  /\ Len(by_model) = 1
           /\ by_model[1][2].total = MinModelPrints
           /\ Len(by_kin) = 2
           /\ by_kin[1][2].rate.v > by_kin[2][2].rate.v
           /\ by_kin[2][2].rate.v > 0

\* C20: compute_all returns one mapping with the keys generated_at,
\* event_counts and the eleven domain keys; event_counts holds the row count
\* of every typed relation and, under "total", of the unified relation; a
\* domain's value is a note mapping exactly when its relation is empty.
ElevenDomains ==
    {"adoption", "print_reliability", "crash_analysis", "update_analysis",
     "memory_analysis", "hardware_analysis", "settings_analysis",
     "panel_usage_analysis", "connection_analysis", "print_start_analysis",
     "error_analysis"}

C20_ReportShape ==
    Reported =>
        /\ Cardinality(ElevenDomains) = 11
        /\ DOMAIN report = {"generated_at", "event_counts"} \cup ElevenDomains
        /\ report["generated_at"].k = "instant"
        /\ DOMAIN report["event_counts"] = RelNames \cup {"total"}
        /\ \A n \in RelNames : report["event_counts"][n] = Len(rel[n])
        /\ report["event_counts"]["total"] = Len(all_events)
        /\ \A key \in ElevenDomains :
               ("note" \in DOMAIN report[key]) <=> PrimaryEmpty(key)

C20_Witness ==
    /\ Reported
    /\ report["event_counts"]["total"] = 3
    /\ report["event_counts"]["sessions"] = 1
    /\ report["event_counts"]["crashes"] = 2
    /\ "note" \notin DOMAIN report["adoption"]
    /\ "note" \notin DOMAIN report["crash_analysis"]
    /\ IsNote(report["print_reliability"])

\* C21: compute_all invokes the eleven calculators independently: when one
\* calculator fails, the results of the calculators that do not fail are
\* still in the report.
ComputeAllRan == pc \in {"reported", "raised"}

C21_CalculatorsIndependent ==
    ComputeAllRan =>
        \A key \in ElevenDomains :
            ~CalculatorRaises(key, rel, Columns(flat_events))
                => key \in DOMAIN report

Ended == pc \in {"exit0", "reported", "raised", "load_raised"}

NothingLoadable == ~dir.exists \/ Len(dir.files) = 0 \/ Len(raw) = 0

RawInWindow(ev) ==
    LET ts == Get(ev, "timestamp")
    IN  /\ Truthy(since) => (ts.k = "iso" /\ ts.v[1] >= since.v)
        /\ Truthy(until) => (ts.k = "iso" /\ ts.v[1] <= until.v)

NoRowInWindow == \A i \in 1..Len(raw) : ~RawInWindow(raw[i])

RawSessions == SelectSeq(raw, LAMBDA ev : Get(ev, "event") = Str("session"))

\* the raw sessions that carry a features list
ListedSessions ==
    SelectSeq(RawSessions,
              LAMBDA ev : "features" \in DOMAIN ev /\ ev["features"].k = "list")

\* the raw sessions the code's denominator counts: a features list, or no
\* features key at all
CountedSessions ==
    SelectSeq(RawSessions,
              LAMBDA ev : "features" \notin DOMAIN ev
                              \/ ev["features"].k = "list")

FeaturesOf(ev) ==
    IF "features" \in DOMAIN ev /\ ev["features"].k = "list"
    THEN ev["features"].v ELSE <<>>

SessionsListing(f, sessions) ==
    Cardinality({i \in 1..Len(sessions) :
                    \E j \in 1..Len(FeaturesOf(sessions[i])) :
                        FeaturesOf(sessions[i])[j] = f})

Occurrences(f, sessions) ==
    Cardinality({p \in UNION {{<<i, j>> : j \in 1..Len(FeaturesOf(sessions[i]))} :
                                 i \in 1..Len(sessions)} :
                    FeaturesOf(sessions[p[1]])[p[2]] = f})

AllFeatures(sessions) ==
    UNION {{FeaturesOf(sessions[i])[j] : j \in 1..Len(FeaturesOf(sessions[i]))} :
              i \in 1..Len(sessions)}

NumericOf(df, column) == DropNa(ToNumeric(Column(df, column)))

C25_NonNumericIsMissing ==
    Reported =>
        /\ ( /\ Len(rel["prints"]) > 0
             /\ "avg_duration_by_outcome_sec"
                    \in DOMAIN report["print_reliability"] ) =>
               LET avg == report["print_reliability"]
                              ["avg_duration_by_outcome_sec"].v
               IN  \A o \in DOMAIN avg :
                       LET durations ==
                               NumericOf(Group(rel["prints"], "outcome", o),
                                         "duration_sec")
                       IN  /\ avg[o] # NaN
                           /\ Len(durations) > 0 => avg[o] = Mean1(durations)
        /\ \A col \in MemoryColumns :
               (col \o "_mean") \in DOMAIN report["memory_analysis"] =>
                   /\ report["memory_analysis"][col \o "_mean"] # NaN
                   /\ report["memory_analysis"][col \o "_mean"] =
                          Mean1(NumericOf(rel["memory_snapshots"], col))

\* C26: splitting is a filter by tag that keeps the order: the k-th row of a
\* typed relation is the k-th row of the unified relation that carries the
\* relation's tag, and the relation has no other rows.
TaggedAt(n) ==
    {i \in 1..Len(all_events) : all_events[i]["event"] = Str(RelTag[n])}

C26_SplitKeepsOrder ==
    Loaded =>
        \A n \in RelNames :
            /\ Len(rel[n]) = Cardinality(TaggedAt(n))
            /\ \A i \in TaggedAt(n) :
                   rel[n][Cardinality({j \in TaggedAt(n) : j <= i})]
                       = all_events[i]

C26_Witness ==
    /\ Loaded
    /\ Len(all_events) = 2
    /\ Len(rel["crashes"]) = 2
    /\ rel["crashes"][1] # rel["crashes"][2]
    /\ rel["crashes"][1] = all_events[1]

\* C27: the loader takes a file that holds one record or a list of records
\* and skips, with a warning, a file that cannot be read or parsed: load_events
\* goes through every file, and the loaded records are the records of the
\* readable files, file after file, each file's records in their order.
Readable(file) == file.kind \in {"list", "dict"}

RECURSIVE RecordsBefore(_, _)
RecordsBefore(files, i) ==
    IF i <= 1 THEN 0
    ELSE RecordsBefore(files, i - 1)
             + (IF Readable(files[i - 1]) THEN Len(files[i - 1].data) ELSE 0)

C27_LoaderSkipsBadFiles ==
    (pc # "start" /\ dir.exists /\ Len(dir.files) > 0) =>
        /\ pc # "load_raised"
        /\ Len(raw) = RecordsBefore(dir.files, Len(dir.files) + 1)
        /\ \A i \in 1..Len(dir.files) :
               Readable(dir.files[i]) =>
                   \A k \in 1..Len(dir.files[i].data) :
                       raw[RecordsBefore(dir.files, i) + k]
                           = dir.files[i].data[k]

\* C28: run_obsolete with dry_run = True never calls delete_obsolete_keys,
\* calls mark_obsolete_keys with dry_run = True only, and returns deleted = 0,
\* whatever the action; with action "delete" and dry_run = False it calls
\* delete_obsolete_keys once and returns that call's count as deleted.
CallsOf(name) ==
    SelectSeq(ocall.result.calls, LAMBDA c : c.name = name)

C28_DryRunModifiesNothing ==
    ocall.pc = "returned" =>
        /\ ocall.dry_run =>
               /\ Len(CallsOf("delete_obsolete_keys")) = 0
               /\ \A i \in 1..Len(CallsOf("mark_obsolete_keys")) :
                      CallsOf("mark_obsolete_keys")[i].dry_run
               /\ ocall.result.deleted = 0
        /\ (ocall.action = "delete" /\ ~ocall.dry_run) =>
               /\ Len(CallsOf("delete_obsolete_keys")) = 1
               /\ ocall.result.deleted = ocall.removed

C28_Witness ==
    /\ ocall.pc = "returned"
    /\ ocall.dry_run
    /\ ocall.action = "delete"
    /\ ocall.keys = 2
    /\ ocall.removed = 2
    /\ ocall.result.would_delete > 0
    /\ ocall.result.deleted = 0

\* C29: a load_events call that returns early -- the directory is missing,
\* holds no JSON file, or no record was loaded -- leaves the unified relation
\* and the twelve typed relations as they were: empty on a fresh analyzer,
\* the first load's relations when the call follows a load that succeeded.
NoRecordIn(d) ==
    \A i \in 1..Len(d.files) :
        d.files[i].kind \in {"list", "dict"} => Len(d.files[i].data) = 0

ReturnsEarly(d) == ~d.exists \/ Len(d.files) = 0 \/ NoRecordIn(d)

LoadReturned == pc # pc' /\ pc' \in {"loaded", "reloaded"}

C29_EarlyReturnKeepsRelations ==
    [][(LoadReturned /\ ReturnsEarly(dir')) =>
           (rel' = rel /\ all_events' = all_events)]_vars

C29_Witness ==
    /\ pc = "reloaded"
    /\ ReturnsEarly(dir)
    /\ Len(all_events) = 2
    /\ Len(rel["crashes"]) = 2

\* C30 (as stated): with a host.ram_total_mb column, ram_distribution gives
\* every session row one label -- a RAM bucket label for a non-negative
\* numeric value, "unknown" for a missing, non-numeric or negative one -- so
\* its counts sum to the number of session rows; the nozzle and bed
\* temperature distributions never hold the label "unknown".
Labels(buckets) == {Str(buckets[i][3]) : i \in 1..Len(buckets)}

CountOf(counts, label) == IF label \in DOMAIN counts THEN counts[label] ELSE 0

RamCells == Column(rel["sessions"], "host.ram_total_mb")

NonNegativeNumeric(v) == v.k = "inf" \/ (v.k = "num" /\ v.v >= 0)

FiniteNonNegative(v) == v.k = "num" /\ v.v >= 0

HasRamDistribution ==
    /\ Reported
    /\ Len(rel["sessions"]) > 0
    /\ "host.ram_total_mb" \in Columns(flat_events)

TemperatureDistributions ==
    {"nozzle_temp_distribution", "bed_temp_distribution"}
        \cap DOMAIN report["print_reliability"]

C30_EveryRowLabelled ==
    /\ HasRamDistribution =>
           LET counts == report["adoption"]["ram_distribution"].v
           IN  /\ DOMAIN counts \subseteq Labels(RAM_BUCKETS) \cup {Str("unknown")}
               /\ SumOver(counts, DOMAIN counts) = Len(rel["sessions"])
               /\ CountOf(counts, Str("unknown")) =
                      Cardinality({i \in 1..Len(RamCells) :
                                      ~NonNegativeNumeric(RamCells[i])})
    /\ Reported =>
           \A key \in TemperatureDistributions :
               Str("unknown") \notin DOMAIN report["print_reliability"][key].v

\* C30 (amended): with a host.ram_total_mb column, ram_distribution gives
\* every session row one label -- the label of the RAM range that holds it for
\* a finite non-negative number, "unknown" for a missing, non-numeric,
\* negative or infinite value -- so its counts sum to the number of session
\* rows; the temperature distributions count the values > 0 only and hold
\* "unknown" for the infinite ones alone.
RowsInRange(cells, triple) ==
    Cardinality({i \in 1..Len(cells) :
                    /\ cells[i].k = "num"
                    /\ triple[1].v <= cells[i].v
                    /\ (triple[2].k = "inf" \/ cells[i].v < triple[2].v)})

InfiniteCells(cells) == Cardinality({i \in 1..Len(cells) : cells[i].k = "inf"})

C30_EveryFiniteRowLabelled ==
    /\ HasRamDistribution =>
           LET counts == report["adoption"]["ram_distribution"].v
           IN  /\ DOMAIN counts \subseteq Labels(RAM_BUCKETS) \cup {Str("unknown")}
               /\ SumOver(counts, DOMAIN counts) = Len(rel["sessions"])
               /\ CountOf(counts, Str("unknown")) =
                      Cardinality({i \in 1..Len(RamCells) :
                                      ~FiniteNonNegative(RamCells[i])})
               /\ \A b \in 1..Len(RAM_BUCKETS) :
                      CountOf(counts, Str(RAM_BUCKETS[b][3]))
                          = RowsInRange(RamCells, RAM_BUCKETS[b])
    /\ Reported =>
           /\ "nozzle_temp_distribution" \in TemperatureDistributions =>
                  CountOf(report["print_reliability"]
                              ["nozzle_temp_distribution"].v, Str("unknown"))
                      = InfiniteCells(Column(rel["prints"], "nozzle_temp"))
           /\ "bed_temp_distribution" \in TemperatureDistributions =>
                  CountOf(report["print_reliability"]
                              ["bed_temp_distribution"].v, Str("unknown"))
                      = InfiniteCells(Column(rel["prints"], "bed_temp"))

C30_Witness ==
    /\ HasRamDistribution
    /\ Len(rel["sessions"]) = 3
    /\ report["adoption"]["ram_distribution"].v =
           (Str("1-2GB") :> 1) @@ (Str("unknown") :> 2)
    /\ \A i \in 1..Len(RamCells) : RamCells[i].k # "inf"

====
